---- MODULE Spec2Model ----
(***************************************************************************)
(* Model of the zos CLI reconciliation core:                               *)
(*   NetworkController (push, dependency linking, proxy creation, upgrade  *)
(*   and admin transfer, schema migration) over ZosNetworkFile (the        *)
(*   per-network deployment record) and Dependency.                        *)
(* The project object of zos-lib is the deployment backend: every call to  *)
(* it that sends a transaction may succeed or fail.                        *)
(***************************************************************************)
EXTENDS Integers, Sequences, FiniteSets, TLC

None == "none"

\* ------------------------------------------------------------------ bounds
MaxEdits == 2     \* edits of the manifest, artifacts and node_modules in a run
MaxOps == 3       \* controller operations started in a run
MaxWrites == 3    \* calls of write() in a run

\* ---------------------------------------------------------------- universe
Aliases == {"A", "L"}            \* contract aliases a manifest may declare
ContractNames == {"C1", "C2"}    \* local contract artifacts
LibNames == {"L"}                \* local library artifacts
ArtifactNames == ContractNames \cup LibNames
Names == Aliases \cup LibNames   \* keys of contracts and solidityLibs
DepNames == {"dep"}
PkgName == "main"                \* packageFile.name
PkgVersions == {"1.0.0", "1.1.0"}
DepVersions == {"1.2.5", "2.0.0"}
Requirements == {"^1.2.0", "^2.0.0"}
Revs == {1, 2}                   \* revisions of the bytecode of an artifact
ProxyAddrSeq == <<"p1", "p2">>   \* the addresses new proxies get, in order
ProxyAddrs == {ProxyAddrSeq[i] : i \in DOMAIN ProxyAddrSeq}
\* account and admin addresses: lower-case and checksummed spellings
AdminAddrs == {"0xad", "0xAD", "0xBE"}
Kinds == {"Upgradeable", "Minimal"}

\* an object without keys
Empty == << >>

\* obj with obj[k] = v
Put(obj, k, v) == [x \in DOMAIN obj \cup {k} |-> IF x = k THEN v ELSE obj[x]]

\* delete obj[k]
Delete(obj, k) == [x \in DOMAIN obj \ {k} |-> obj[x]]

\* ------------------------------------------------------------ pure helpers

\* getSolidityLibNames(bytecode): the libraries whose placeholders the
\* unlinked bytecode of an artifact holds
getSolidityLibNames(name) == IF name = "C2" THEN {"L"} ELSE {}

\* bytecodeDigest(artifact.schema.bytecode)
bytecodeDigest(name, rev) == <<"sha", name, rev>>

\* the address a successful setImplementation returns for this bytecode
ImplAddress(name, rev) == <<"impl", name, rev>>

\* ZWeb3.toChecksumAddress: absent stays absent, otherwise the checksummed spelling
toChecksumAddress(a) ==
    CASE a = None -> None
      [] a = "0xad" -> "0xAD"
      [] OTHER -> a

\* semver.coerce(version): the major.minor.patch triple a version string
\* starts with (missing parts are 0), null when it holds no number
Coerce(v) ==
    CASE v = "1.2.5" -> <<1, 2, 5>>
      [] v = "1.2.0" -> <<1, 2, 0>>
      [] v = "1.2" -> <<1, 2, 0>>
      [] v = "1.3.0" -> <<1, 3, 0>>
      [] v = "2.0.0" -> <<2, 0, 0>>
      [] v = "1.0.0" -> <<1, 0, 0>>
      [] v = "0.2.1" -> <<0, 2, 1>>
      [] v = "2.0.0-rc.1" -> <<2, 0, 0>>
      [] OTHER -> << >>

\* new semver.Range(requirement): the comparator of a requirement string, a
\* caret range or one full version; anything else here is no valid range
Range(req) ==
    CASE req = "^1.2.0" -> [op |-> "^", v |-> <<1, 2, 0>>]
      [] req = "^1.0.0" -> [op |-> "^", v |-> <<1, 0, 0>>]
      [] req = "^2.0.0" -> [op |-> "^", v |-> <<2, 0, 0>>]
      [] req = "^0.2.0" -> [op |-> "^", v |-> <<0, 2, 0>>]
      [] req = "2.0.0-rc.1" -> [op |-> "=", v |-> <<2, 0, 0, "rc.1">>]
      [] req \in {"1.2.5", "1.2.0", "1.3.0", "2.0.0", "1.0.0", "0.2.1"} ->
            [op |-> "=", v |-> Coerce(req)]
      [] OTHER -> [op |-> "invalid", v |-> << >>]

VersionLess(a, b) ==
    \/ a[1] < b[1]
    \/ a[1] = b[1] /\ a[2] < b[2]
    \/ a[1] = b[1] /\ a[2] = b[2] /\ a[3] < b[3]

\* semver.satisfies(version, range) for caret and exact ranges
SemverSatisfies(v, req) ==
    LET r == Range(req)
    IN  /\ v # << >>
        /\ r.op # "invalid"
        /\ IF r.op = "^"
           THEN /\ ~VersionLess(v, r.v)
                /\ v[1] = r.v[1]
                /\ (r.v[1] = 0 => v[2] = r.v[2])
           ELSE v = r.v

\* satisfiesVersion that looks at the semantic range only
satisfiesVersionRangeOnly(version, requirement) ==
    SemverSatisfies(Coerce(version), requirement)

\* Dependency.satisfiesVersion(version, requirement)
satisfiesVersion(version, requirement) ==
    \/ requirement = None
    \/ version = requirement
    \/ SemverSatisfies(Coerce(version), requirement)

\* toContractFullName(package, contract)
toContractFullName(package, contract) == <<package, contract>>

VARIABLES
    packageFile,   \* the manifest: version, contracts, dependencies, isPublished
    artifacts,     \* revision of the bytecode of each local artifact
    nodeModules,   \* per dependency: its installed zos.json and zos.<network>.json
    networkFile,   \* the deployment record (ZosNetworkFile.data)
    backend,       \* state behind the project object
    op,            \* the controller operation in progress
    tasks,         \* the asynchronous tasks of the batches in flight
    calls,         \* backend calls issued by the current operation
    startFile,     \* the record when the current operation started
    counters,      \* edits and operations so far, and whether the last one was a clean push
    storage        \* the record file on disk and the calls of write()

vars == <<packageFile, artifacts, nodeModules, networkFile, backend, op, tasks, calls,
          startFile, counters, storage>>

\* ------------------------------------------------------- ZosPackageFile
\* packageFile.contractAliases
contractAliases == DOMAIN packageFile.contracts

\* packageFile.contractNames
contractNames == {packageFile.contracts[a] : a \in contractAliases}

\* packageFile.dependenciesNames
dependenciesNames == DOMAIN packageFile.dependencies

\* packageFile.dependencyMatches(name, version)
dependencyMatches(name, version) ==
    /\ name \in dependenciesNames
    /\ satisfiesVersion(version, packageFile.dependencies[name])

\* -------------------------------------------------------- ZosNetworkFile
ZOS_VERSION == "2.2"

\* a schema version that predates the proxy admin
LegacyZosversion == "2"

\* txParams.from, the sender of the transactions
TxFrom == "0xF0"

\* the record a ZosNetworkFile holds when there is no file yet
Defaults ==
    [contracts |-> Empty,
     solidityLibs |-> Empty,
     proxies |-> Empty,
     dependencies |-> Empty,
     zosversion |-> ZOS_VERSION,
     version |-> None,
     frozen |-> FALSE,
     proxyAdmin |-> None,
     proxyFactory |-> None,
     app |-> None,
     package |-> None]

hasContract(alias) == alias \in DOMAIN networkFile.contracts

hasSolidityLib(libName) == libName \in DOMAIN networkFile.solidityLibs

\* Object.keys(networkFile.contracts) minus the manifest's aliases
contractAliasesMissingFromPackage == DOMAIN networkFile.contracts \ contractAliases

solidityLibsMissing(libs) == DOMAIN networkFile.solidityLibs \ libs

\* hasSameBytecode looking at the contracts entry only
hasSameBytecodeContractsOnly(alias, name) ==
    /\ hasContract(alias)
    /\ bytecodeDigest(name, artifacts[name]) = networkFile.contracts[alias].localBytecodeHash

\* hasSameBytecode(alias, klass): the entry is the contract of that alias or,
\* when there is none, the library of that name; no entry gives undefined
hasSameBytecode(alias, name) ==
    \/ /\ hasContract(alias)
       /\ bytecodeDigest(name, artifacts[name]) = networkFile.contracts[alias].localBytecodeHash
    \/ /\ ~hasContract(alias)
       /\ hasSolidityLib(alias)
       /\ bytecodeDigest(name, artifacts[name]) = networkFile.solidityLibs[alias].localBytecodeHash

hasDependency(name) == name \in DOMAIN networkFile.dependencies

dependencyHasCustomDeploy(name) ==
    /\ hasDependency(name)
    /\ networkFile.dependencies[name].customDeploy

dependencySatisfiesVersionRequirement(name) ==
    /\ hasDependency(name)
    /\ dependencyMatches(name, networkFile.dependencies[name].version)

dependencyHasMatchingCustomDeploy(name) ==
    /\ dependencyHasCustomDeploy(name)
    /\ dependencySatisfiesVersionRequirement(name)

dependenciesNamesMissingFromPackage == DOMAIN networkFile.dependencies \ dependenciesNames

\* ------------------------------------------------------------ operation state
NoError == [kind |-> None, items |-> {}]

\* the arguments of the proxy operations
NoArgs ==
    [package |-> None, contract |-> None, address |-> None, admin |-> None,
     salt |-> FALSE, kind |-> None, occupied |-> FALSE]

IdleOp ==
    [name |-> "idle", pc |-> "idle", reupload |-> FALSE, force |-> FALSE,
     changedLibraries |-> {}, contracts |-> {}, invalid |-> {}, newVersion |-> FALSE,
     args |-> NoArgs, selected |-> {}, repeat |-> FALSE, error |-> NoError]

Finished == op.pc \in {"idle", "done", "failed"}

Settled == {"done", "failed"}

\* the tasks of the given kinds
TasksOf(kinds) == {t \in DOMAIN tasks : t[1] \in kinds}

AllSettled(kinds) == \A t \in TasksOf(kinds) : tasks[t] \in Settled

Failures(kinds) == {t \in TasksOf(kinds) : tasks[t] = "failed"}

CallCount(c) == IF c \in DOMAIN calls THEN calls[c] ELSE 0

\* calls with one more call of each element of cs
Issue(cs) == [c \in DOMAIN calls \cup cs |-> CallCount(c) + (IF c \in cs THEN 1 ELSE 0)]

TotalCalls == {c \in DOMAIN calls : calls[c] > 0}

\* the disk before the record file is first written, and no write() yet
NoFile ==
    [exists |-> FALSE, data |-> Defaults, rewrites |-> 0, calls |-> 0,
     seen |-> Defaults, wrote |-> FALSE]

\* ------------------------------------------------------------ environment
Init ==
    /\ packageFile \in
          {[version |-> "1.0.0", contracts |-> c, dependencies |-> Empty, isPublished |-> p] :
              c \in {Empty, [a \in {"A"} |-> "C2"]}, p \in BOOLEAN}
    /\ artifacts = [n \in ArtifactNames |-> 1]
    /\ nodeModules = [d \in DepNames |-> [version |-> "1.2.5", network |-> "published"]]
    /\ networkFile = Defaults
    /\ backend = [impls |-> Empty, dependencies |-> Empty, proxies |-> Empty,
                  proxyAdmin |-> None, proxyFactory |-> None]
    /\ op = IdleOp
    /\ tasks = Empty
    /\ calls = Empty
    /\ startFile = Defaults
    /\ counters = [edits |-> 0, ops |-> 0, cleanPush |-> FALSE]
    /\ storage = NoFile

\* what an edit between two operations leaves of the finished operation
AfterEdit ==
    /\ Finished
    /\ counters.edits < MaxEdits
    /\ counters' = [counters EXCEPT !.edits = @ + 1, !.cleanPush = FALSE]
    /\ op' = IdleOp
    /\ tasks' = Empty
    /\ calls' = Empty
    /\ startFile' = networkFile
    /\ UNCHANGED <<networkFile, backend, storage>>

\* the user adds, renames or removes a contract of the manifest (zos add / remove)
EditContracts ==
    /\ AfterEdit
    /\ \E a \in Aliases :
          \/ \E n \in ContractNames :
                /\ ~(a \in contractAliases /\ packageFile.contracts[a] = n)
                /\ packageFile' = [packageFile EXCEPT !.contracts = Put(@, a, n)]
          \/ /\ a \in contractAliases
             /\ packageFile' = [packageFile EXCEPT !.contracts = Delete(@, a)]
    /\ UNCHANGED <<artifacts, nodeModules>>

\* the user declares a new package version (zos bump)
EditVersion ==
    /\ AfterEdit
    /\ \E v \in PkgVersions \ {packageFile.version} :
          packageFile' = [packageFile EXCEPT !.version = v]
    /\ UNCHANGED <<artifacts, nodeModules>>

\* the user links, relinks or unlinks a dependency in the manifest (zos link / unlink)
EditDependencies ==
    /\ AfterEdit
    /\ \E d \in DepNames :
          \/ \E r \in Requirements :
                /\ ~(d \in dependenciesNames /\ packageFile.dependencies[d] = r)
                /\ packageFile' = [packageFile EXCEPT !.dependencies = Put(@, d, r)]
          \/ /\ d \in dependenciesNames
             /\ packageFile' = [packageFile EXCEPT !.dependencies = Delete(@, d)]
    /\ UNCHANGED <<artifacts, nodeModules>>

\* a contract or library is changed and recompiled
EditArtifact ==
    /\ AfterEdit
    /\ \E n \in ArtifactNames :
          \E r \in Revs \ {artifacts[n]} : artifacts' = [artifacts EXCEPT ![n] = r]
    /\ UNCHANGED <<packageFile, nodeModules>>

\* another release of a dependency is installed in node_modules
EditNodeModules ==
    /\ AfterEdit
    /\ \E d \in DepNames, v \in DepVersions, n \in {"nofile", "unpublished", "published"} :
          /\ nodeModules[d] # [version |-> v, network |-> n]
          /\ nodeModules' = [nodeModules EXCEPT ![d] = [version |-> v, network |-> n]]
    /\ UNCHANGED <<packageFile, artifacts>>

\* ----------------------------------------------- ZosNetworkFile: proxies
\* every proxy of the record with the package and contract of its bucket
\* and its kind, which is Upgradeable when the entry has none
allProxies(file) ==
    UNION {{[package |-> fullname[1], contract |-> fullname[2],
             address |-> file.proxies[fullname][i].address,
             version |-> file.proxies[fullname][i].version,
             implementation |-> file.proxies[fullname][i].implementation,
             admin |-> file.proxies[fullname][i].admin,
             kind |-> IF file.proxies[fullname][i].kind = None THEN "Upgradeable"
                      ELSE file.proxies[fullname][i].kind] :
               i \in 1 .. Len(file.proxies[fullname])} : fullname \in DOMAIN file.proxies}

\* getProxies that matches the kind as it is recorded
getProxiesRecordedKind(file, package, contractAlias, address, kind) ==
    {proxy \in allProxies(file) :
        /\ package = None \/ proxy.package = package
        /\ contractAlias = None \/ proxy.contract = contractAlias
        /\ address = None \/ proxy.address = address
        /\ kind = None
           \/ \E i \in 1 .. Len(file.proxies[<<proxy.package, proxy.contract>>]) :
                 /\ file.proxies[<<proxy.package, proxy.contract>>][i].address = proxy.address
                 /\ file.proxies[<<proxy.package, proxy.contract>>][i].kind = kind}

\* networkFile.getProxies({package, contract, address, kind})
getProxies(file, package, contractAlias, address, kind) ==
    {proxy \in allProxies(file) :
        /\ package = None \/ proxy.package = package
        /\ contractAlias = None \/ proxy.contract = contractAlias
        /\ address = None \/ proxy.address = address
        /\ kind = None \/ proxy.kind = kind}

\* _indexOfProxy that takes the first proxy of the bucket
indexOfProxyFirst(file, fullname, address) ==
    IF fullname \notin DOMAIN file.proxies \/ file.proxies[fullname] = << >> THEN 0 ELSE 1

\* networkFile._indexOfProxy(fullname, address): 0 when there is none
indexOfProxy(file, fullname, address) ==
    IF fullname \notin DOMAIN file.proxies THEN 0
    ELSE LET found == {i \in 1 .. Len(file.proxies[fullname]) :
                          file.proxies[fullname][i].address = address}
         IN  IF found = {} THEN 0 ELSE CHOOSE i \in found : \A j \in found : i <= j

\* networkFile.addProxy(package, alias, info)
addProxy(file, package, alias, info) ==
    LET fullname == toContractFullName(package, alias)
        bucket == IF fullname \in DOMAIN file.proxies THEN file.proxies[fullname] ELSE << >>
    IN  [file EXCEPT !.proxies = Put(@, fullname, Append(bucket, info))]

\* networkFile.updateProxy(proxy, fn) throws: the record has no such proxy
updateProxyThrows(file, package, alias, address) ==
    indexOfProxy(file, toContractFullName(package, alias), address) = 0

\* networkFile.updateProxy(proxy, fn) where fn sets the admin
updateProxyAdmin(file, package, alias, address, newAdmin) ==
    LET fullname == toContractFullName(package, alias)
        index == indexOfProxy(file, fullname, address)
    IN  [file EXCEPT !.proxies[fullname][index].admin = newAdmin]

\* networkFile.updateProxy(proxy, fn) where fn sets the implementation and version
updateProxyImplementation(file, package, alias, address, implementation, version) ==
    LET fullname == toContractFullName(package, alias)
        index == indexOfProxy(file, fullname, address)
    IN  [file EXCEPT !.proxies[fullname][index].implementation = implementation,
                     !.proxies[fullname][index].version = version]

\* ------------------------------------------------------ NetworkController
isPublished == packageFile.isPublished \/ networkFile.app # None

newVersionRequired == packageFile.version # networkFile.version /\ isPublished

isLocalContract(alias) == alias \in contractAliases

isContractDeployed(alias) == ~isLocalContract(alias) \/ hasContract(alias)

\* hasContractChanged that never compares the bytecode of a deployed contract
hasContractChangedUndeployedOnly(alias) ==
    IF ~isLocalContract(alias) THEN FALSE ELSE ~isContractDeployed(alias)

\* hasContractChanged that takes every local contract as changed
hasContractChangedAlways(alias) == isLocalContract(alias)

hasContractChanged(alias) ==
    IF ~isLocalContract(alias) THEN FALSE
    ELSE IF ~isContractDeployed(alias) THEN TRUE
    ELSE ~hasSameBytecode(alias, packageFile.contracts[alias])

hasSolidityLibChanged(libName) == ~hasSameBytecode(libName, libName)

hasChangedLibraries(name, changedLibraries) ==
    changedLibraries \cap getSolidityLibNames(name) # {}

getAllSolidityLibNames(names) == UNION {getSolidityLibNames(n) : n \in names}

\* the clash test made against the manifest's contract names
ClashesContractNames == getAllSolidityLibNames(contractNames) \cap contractNames

\* no clash is ever seen
ClashesNone == {}

\* the library names that clash with a contract alias of the manifest
Clashes == getAllSolidityLibNames(contractNames) \cap contractAliases

solidityLibsForPush(onlyChanged) ==
    {l \in getAllSolidityLibNames(contractNames) :
        ~hasSolidityLib(l) \/ ~onlyChanged \/ hasSolidityLibChanged(l)}

\* contractsListForPush that overlooks the changed libraries
contractsListForPushNoLibraries(onlyChanged, changedLibraries) ==
    {a \in contractAliases :
        \/ newVersionRequired
        \/ ~onlyChanged
        \/ hasContractChanged(a)}

contractsListForPush(onlyChanged, changedLibraries) ==
    {a \in contractAliases :
        \/ newVersionRequired
        \/ ~onlyChanged
        \/ hasContractChanged(a)
        \/ hasChangedLibraries(packageFile.contracts[a], changedLibraries)}

\* validateContracts that passes whatever validateContract returns
validateContractsPasses(contracts, invalid) == TRUE

\* validateContracts(contracts, buildArtifacts), where invalid are the
\* contracts for which validateContract returns false
validateContracts(contracts, invalid) == contracts \cap invalid = {}

\* checkVersion that takes every push for one of a new package version
checkVersionAlways(file) == [file EXCEPT !.frozen = FALSE, !.contracts = Empty]

\* checkVersion that clears the contracts of a new package version without unfreezing
checkVersionKeepingFrozen(file) ==
    IF newVersionRequired THEN [file EXCEPT !.contracts = Empty] ELSE file

\* checkVersion: a new package version unfreezes the record and clears its contracts
checkVersion(file) ==
    IF newVersionRequired
    THEN [file EXCEPT !.frozen = FALSE, !.contracts = Empty]
    ELSE file

\* what every operation does when it starts
Begin(name) ==
    /\ Finished
    /\ counters.ops < MaxOps
    /\ counters' = [counters EXCEPT !.ops = @ + 1, !.cleanPush = FALSE]
    /\ startFile' = networkFile
    /\ UNCHANGED <<packageFile, artifacts, nodeModules, storage>>

\* push, up to its first await: the deltas, validation and checkVersion.
\* invalid: the contracts of the delta that the validation oracle rejects
Push(reupload, force, invalid) ==
    /\ Begin("push")
    /\ LET changedLibraries == solidityLibsForPush(~reupload)
           contracts == contractsListForPush(~reupload, changedLibraries)
           started == [IdleOp EXCEPT !.name = "push", !.reupload = reupload,
                                     !.force = force, !.repeat = counters.cleanPush,
                                     !.newVersion = newVersionRequired]
       IN  /\ tasks' = Empty
           /\ calls' = Empty
           /\ backend' = backend
           /\ IF Clashes # {}
              THEN /\ invalid = {}
                   /\ op' = [started EXCEPT !.pc = "failed",
                                !.error = [kind |-> "NamingCollision",
                                           items |-> {<<"lib", l>> : l \in Clashes}]]
                   /\ networkFile' = networkFile
              ELSE /\ invalid \subseteq contracts
                   /\ IF ~validateContracts(contracts, invalid) /\ ~force
                      THEN /\ op' = [started EXCEPT !.pc = "failed",
                                        !.changedLibraries = changedLibraries,
                                        !.contracts = contracts,
                                        !.invalid = invalid,
                                        !.error = [kind |-> "ValidationFailure",
                                                   items |-> {<<"contract", a>> : a \in invalid}]]
                           /\ networkFile' = networkFile
                      ELSE /\ op' = [started EXCEPT !.pc = "fetch",
                                        !.changedLibraries = changedLibraries,
                                        !.contracts = contracts,
                                        !.invalid = invalid]
                           /\ networkFile' = checkVersion(networkFile)

\* ProjectDeployer.fetchOrDeploy(requestedVersion) on success: the record gets
\* the version and, for a published project, the app and package addresses
registerDeploy(file, requestedVersion) ==
    [file EXCEPT !.version = requestedVersion,
                 !.app = IF isPublished /\ @ = None THEN "0xApp" ELSE @,
                 !.package = IF isPublished /\ @ = None THEN "0xPkg" ELSE @]

\* the backend after fetchOrDeploy: a published project gets a fresh
\* implementation directory with each new version
deployedBackend(requestedVersion) ==
    IF isPublished /\ requestedVersion # networkFile.version
    THEN [backend EXCEPT !.impls = Empty]
    ELSE backend

\* the package address a dependency is published at on this network
DependencyPackage(d) == <<"package", d, nodeModules[d].version>>

\* new Dependency(depName, depVersion).getNetworkFile(network) returns a file
\* with a package address: the installed zos.json and zos.<network>.json
\* satisfy the requirement, and the latter records a published package
dependencyIsPublished(d) ==
    /\ satisfiesVersion(nodeModules[d].version, packageFile.dependencies[d])
    /\ nodeModules[d].network = "published"

\* dependencyInfoError that takes a file without a package address for published
dependencyInfoErrorAddressUnchecked(d) ==
    CASE ~satisfiesVersion(nodeModules[d].version, packageFile.dependencies[d]) ->
            "VersionMismatch"
      [] nodeModules[d].network = "nofile" -> "NoNetworkFile"
      [] OTHER -> None

\* dependencyInfoError of a Dependency that validates no version
dependencyInfoErrorVersionUnchecked(d) ==
    CASE nodeModules[d].network = "nofile" -> "NoNetworkFile"
      [] nodeModules[d].network = "unpublished" -> "UnpublishedDependency"
      [] OTHER -> None

\* the error linkDependency throws before it calls the backend, None when it
\* throws none: the Dependency constructor wants the installed version to
\* satisfy the requirement, getNetworkFile wants zos.<network>.json to
\* exist, and linkDependency wants it to hold a package address
dependencyInfoError(d) ==
    CASE ~satisfiesVersion(nodeModules[d].version, packageFile.dependencies[d]) ->
            "VersionMismatch"
      [] nodeModules[d].network = "nofile" -> "NoNetworkFile"
      [] nodeModules[d].network = "unpublished" -> "UnpublishedDependency"
      [] OTHER -> None

\* linkDependency that never takes the custom deployment of the record
linkTaskPublished(d) == <<"link", d>>

\* linkDependency up to its first await: the task and the state it is left in
linkTask(d) ==
    IF dependencyHasMatchingCustomDeploy(d) THEN <<"relink", d>> ELSE <<"link", d>>

\* linkDependency that links whatever the record holds
linkLaunchAlways(d) == IF dependencyIsPublished(d) THEN "inflight" ELSE "failed"

linkLaunch(d) ==
    IF dependencyHasMatchingCustomDeploy(d) THEN "inflight"
    ELSE IF ~dependencySatisfiesVersionRequirement(d)
         THEN (IF dependencyInfoError(d) = None THEN "inflight" ELSE "failed")
         ELSE "done"

\* handleDependenciesLink: one link task per manifest dependency and one
\* unlink task per recorded dependency missing from the manifest
dependencyTasks ==
    [t \in {linkTask(d) : d \in dependenciesNames}
           \cup {<<"unlink", d>> : d \in dependenciesNamesMissingFromPackage} |->
        IF t[1] = "unlink" THEN "pending" ELSE linkLaunch(t[2])]

\* the backend call a task makes
CallOf(t) ==
    CASE t[1] \in {"link", "relink"} -> <<"setDependency", t[2]>>
      [] t[1] = "unlink" -> <<"unsetDependency", t[2]>>
      [] t[1] \in {"lib", "contract"} -> <<"setImplementation", t[2]>>
      [] t[1] \in {"unsetContract", "unsetLib"} -> <<"unsetImplementation", t[2]>>
      [] t[1] = "upgrade" -> <<"upgradeProxy", t[2]>>
      [] t[1] \in {"admin", "migrate"} -> <<"changeProxyAdmin", t[2]>>
      [] t[1] = "deploy" -> <<"deploy", t[2]>>

\* the calls that a freshly launched batch has issued
Issued(batch) == {CallOf(t) : t \in {x \in DOMAIN batch : batch[x] = "inflight"}}

\* push that runs checkNotFrozen right after fetchOrDeploy, before
\* handleDependenciesLink
PushFetchedFrozenChecked ==
    /\ op.name = "push" /\ op.pc = "fetch"
    /\ networkFile' = registerDeploy(networkFile, packageFile.version)
    /\ backend' = deployedBackend(packageFile.version)
    /\ IF networkFile.frozen
       THEN /\ op' = [op EXCEPT !.pc = "failed",
                                !.error = [kind |-> "Frozen", items |-> {}]]
            /\ UNCHANGED <<tasks, calls>>
       ELSE /\ tasks' = dependencyTasks
            /\ calls' = Issue(Issued(dependencyTasks))
            /\ op' = [op EXCEPT !.pc = "dependencies"]
    /\ UNCHANGED <<storage, packageFile, artifacts, nodeModules, startFile, counters>>

\* fetchOrDeploy(packageVersion) succeeds; push goes on to handleDependenciesLink
PushFetched ==
    /\ op.name = "push" /\ op.pc = "fetch"
    /\ networkFile' = registerDeploy(networkFile, packageFile.version)
    /\ backend' = deployedBackend(packageFile.version)
    /\ tasks' = dependencyTasks
    /\ calls' = Issue(Issued(dependencyTasks))
    /\ op' = [op EXCEPT !.pc = "dependencies"]
    /\ UNCHANGED <<storage, packageFile, artifacts, nodeModules, startFile, counters>>

\* fetchOrDeploy fails: the operation raises its error
FetchFailed ==
    /\ op.pc = "fetch"
    /\ op' = [op EXCEPT !.pc = "failed",
                        !.error = [kind |-> "Backend", items |-> {<<"fetchOrDeploy", PkgName>>}]]
    /\ UNCHANGED <<storage, packageFile, artifacts, nodeModules, networkFile, backend, tasks,
                   calls, startFile, counters>>

\* -------------------------------------------------- record mutators
\* networkFile.setDependency(name, {package, version, customDeploy})
setDependency(file, name, package, version, customDeploy) ==
    [file EXCEPT !.dependencies =
        Put(@, name, [package |-> package, version |-> version,
                      customDeploy |-> customDeploy])]

\* networkFile.unsetDependency(name)
unsetDependency(file, name) == [file EXCEPT !.dependencies = Delete(@, name)]

\* networkFile.addContract(alias, instance, ...)
addContract(file, alias, name) ==
    [file EXCEPT !.contracts =
        Put(@, alias, [address |-> ImplAddress(name, artifacts[name]),
                       localBytecodeHash |-> bytecodeDigest(name, artifacts[name])])]

\* networkFile.unsetContract(alias)
unsetContract(file, alias) == [file EXCEPT !.contracts = Delete(@, alias)]

\* networkFile.addSolidityLib(libName, instance)
addSolidityLib(file, libName) ==
    [file EXCEPT !.solidityLibs =
        Put(@, libName, [address |-> ImplAddress(libName, artifacts[libName]),
                         localBytecodeHash |-> bytecodeDigest(libName, artifacts[libName])])]

\* networkFile.unsetSolidityLib(libName)
unsetSolidityLib(file, libName) == [file EXCEPT !.solidityLibs = Delete(@, libName)]

\* ------------------------------------------------------ the tasks of push
\* what the backend holds after the call of task t succeeded
pushBackendAfter(t) ==
    CASE t[1] = "link" ->
            [backend EXCEPT !.dependencies =
                Put(@, t[2], [package |-> DependencyPackage(t[2]),
                              version |-> nodeModules[t[2]].version])]
      [] t[1] = "relink" ->
            [backend EXCEPT !.dependencies =
                Put(@, t[2], [package |-> networkFile.dependencies[t[2]].package,
                              version |-> networkFile.dependencies[t[2]].version])]
      [] t[1] = "unlink" -> [backend EXCEPT !.dependencies = Delete(@, t[2])]
      [] t[1] = "lib" ->
            [backend EXCEPT !.impls = Put(@, t[2], ImplAddress(t[2], artifacts[t[2]]))]
      [] t[1] = "contract" ->
            [backend EXCEPT !.impls =
                Put(@, t[2], ImplAddress(packageFile.contracts[t[2]],
                                         artifacts[packageFile.contracts[t[2]]]))]
      [] t[1] \in {"unsetContract", "unsetLib"} ->
            [backend EXCEPT !.impls = Delete(@, t[2])]

\* linkDependency after project.setDependency resolved
linkDependencyRecord(file, d) ==
    setDependency(file, d, DependencyPackage(d), nodeModules[d].version, FALSE)

\* uploadContract that leaves the record as it is
uploadContractRecordSkipped(file, alias) == file

\* uploadContract after project.setImplementation resolved
uploadContractRecord(file, alias) == addContract(file, alias, packageFile.contracts[alias])

\* the record after the continuation of task t ran
pushRecordAfter(t) ==
    CASE t[1] = "link" -> linkDependencyRecord(networkFile, t[2])
      [] t[1] = "relink" -> networkFile
      [] t[1] = "unlink" -> unsetDependency(networkFile, t[2])
      [] t[1] = "lib" -> addSolidityLib(networkFile, t[2])
      [] t[1] = "contract" -> uploadContractRecord(networkFile, t[2])
      [] t[1] = "unsetContract" -> unsetContract(networkFile, t[2])
      [] t[1] = "unsetLib" -> unsetSolidityLib(networkFile, t[2])

PushKinds == {"link", "relink", "unlink", "lib", "contract", "unsetContract", "unsetLib"}

\* unlinkDependency that unsets the dependency without asking whether it is linked
UnlinkCheckedAlwaysCalls(t) ==
    /\ t \in DOMAIN tasks /\ t[1] = "unlink" /\ tasks[t] = "pending"
    /\ tasks' = [tasks EXCEPT ![t] = "inflight"]
    /\ calls' = Issue({CallOf(t)})
    /\ UNCHANGED <<storage, packageFile, artifacts, nodeModules, networkFile, backend, op,
                   startFile, counters>>

\* unlinkDependency after project.hasDependency resolved: unset it on the
\* backend when it is linked there, otherwise go on to the record
UnlinkChecked(t) ==
    /\ t \in DOMAIN tasks /\ t[1] = "unlink" /\ tasks[t] = "pending"
    /\ IF t[2] \in DOMAIN backend.dependencies
       THEN /\ tasks' = [tasks EXCEPT ![t] = "inflight"]
            /\ calls' = Issue({CallOf(t)})
       ELSE /\ tasks' = [tasks EXCEPT ![t] = "called"]
            /\ calls' = calls
    /\ UNCHANGED <<storage, packageFile, artifacts, nodeModules, networkFile, backend, op,
                   startFile, counters>>

\* the backend call of a task of push succeeds
PushCallSucceeds(t) ==
    /\ t \in DOMAIN tasks /\ t[1] \in PushKinds /\ tasks[t] = "inflight"
    /\ backend' = pushBackendAfter(t)
    /\ tasks' = [tasks EXCEPT ![t] = "called"]
    /\ UNCHANGED <<storage, packageFile, artifacts, nodeModules, networkFile, op, calls,
                   startFile, counters>>

\* the backend call of a task fails: the task raises
CallFails(t) ==
    /\ t \in DOMAIN tasks /\ tasks[t] = "inflight"
    /\ tasks' = [tasks EXCEPT ![t] = "failed"]
    /\ UNCHANGED <<storage, packageFile, artifacts, nodeModules, networkFile, backend, op, calls,
                   startFile, counters>>

\* the continuation of a task of push after its await: the record is written
PushContinues(t) ==
    /\ t \in DOMAIN tasks /\ t[1] \in PushKinds /\ tasks[t] = "called"
    /\ networkFile' = pushRecordAfter(t)
    /\ tasks' = [tasks EXCEPT ![t] = "done"]
    /\ UNCHANGED <<storage, packageFile, artifacts, nodeModules, backend, op, calls,
                   startFile, counters>>

\* ------------------------------------------------------------- batches
\* allPromisesOrError(promises) resolves once every task has settled and none failed
allPromisesResolved(kinds) == AllSettled(kinds) /\ Failures(kinds) = {}

\* allPromisesOrError(promises) rejects once every task has settled and some failed
allPromisesRejected(kinds) == AllSettled(kinds) /\ Failures(kinds) # {}

\* the batches an operation awaits at each of its positions
Batches(pc) ==
    CASE pc = "dependencies" -> {{"link", "relink", "unlink"}}
      [] pc = "libraries" -> {{"lib"}}
      [] pc = "contracts" -> {{"contract"}, {"unsetContract"}}
      [] pc = "unsetLibs" -> {{"unsetLib"}}
      [] pc = "upgrade" -> {{"upgrade"}}
      [] pc = "admin" -> {{"admin"}}
      [] pc = "migrating" -> {{"migrate"}}
      [] pc = "deploy" -> {{"deploy"}}
      [] OTHER -> {}

\* one of the batches the operation awaits rejects: the operation raises the
\* error of that batch, which names every task of the batch that failed
BatchRejected ==
    /\ \E kinds \in Batches(op.pc) :
          /\ allPromisesRejected(kinds)
          /\ op' = [op EXCEPT !.pc = "failed",
                              !.error = [kind |-> "Batch", items |-> Failures(kinds)]]
    /\ UNCHANGED <<storage, packageFile, artifacts, nodeModules, networkFile, backend, tasks,
                   calls, startFile, counters>>

Launch(batch) ==
    /\ tasks' = batch
    /\ calls' = Issue(Issued(batch))

uploadSolidityLibsTasks == [t \in {<<"lib", l>> : l \in op.changedLibraries} |-> "inflight"]

\* uploadAndUnsetContracts that removes every recorded contract
uploadAndUnsetContractsTasksAllRecorded ==
    [t \in {<<"contract", a>> : a \in op.contracts}
           \cup {<<"unsetContract", a>> : a \in DOMAIN networkFile.contracts} |->
        "inflight"]

uploadAndUnsetContractsTasks ==
    [t \in {<<"contract", a>> : a \in op.contracts}
           \cup {<<"unsetContract", a>> : a \in contractAliasesMissingFromPackage} |->
        "inflight"]

\* unsetSolidityLibs that removes no library
unsetSolidityLibsTasksNone == Empty

unsetSolidityLibsTasks ==
    [t \in {<<"unsetLib", l>> :
               l \in solidityLibsMissing(getAllSolidityLibNames(contractNames))} |->
        "inflight"]

\* checkNotFrozen that never throws
checkNotFrozenNever(file) == FALSE

\* checkNotFrozen(): whether it throws
checkNotFrozenThrows(file) == file.frozen

\* handleDependenciesLink resolved: checkNotFrozen, then uploadSolidityLibs
PushDependenciesLinked ==
    /\ op.name = "push" /\ op.pc = "dependencies"
    /\ allPromisesResolved({"link", "relink", "unlink"})
    /\ IF checkNotFrozenThrows(networkFile)
       THEN /\ op' = [op EXCEPT !.pc = "failed",
                                !.error = [kind |-> "Frozen", items |-> {}]]
            /\ UNCHANGED <<tasks, calls>>
       ELSE /\ op' = [op EXCEPT !.pc = "libraries"]
            /\ Launch(uploadSolidityLibsTasks)
    /\ UNCHANGED <<storage, packageFile, artifacts, nodeModules, networkFile, backend,
                   startFile, counters>>

\* push that goes on to the contracts without awaiting uploadSolidityLibs
PushLibrariesUploadedUnawaited ==
    /\ op.name = "push" /\ op.pc = "libraries"
    /\ op' = [op EXCEPT !.pc = "contracts"]
    /\ tasks' = [t \in DOMAIN tasks \cup DOMAIN uploadAndUnsetContractsTasks |->
                    IF t \in DOMAIN tasks THEN tasks[t] ELSE "inflight"]
    /\ calls' = Issue(Issued(uploadAndUnsetContractsTasks))
    /\ UNCHANGED <<storage, packageFile, artifacts, nodeModules, networkFile, backend,
                   startFile, counters>>

\* uploadSolidityLibs resolved: uploadContracts and unsetContracts together
PushLibrariesUploaded ==
    /\ op.name = "push" /\ op.pc = "libraries"
    /\ allPromisesResolved({"lib"})
    /\ op' = [op EXCEPT !.pc = "contracts"]
    /\ Launch(uploadAndUnsetContractsTasks)
    /\ UNCHANGED <<storage, packageFile, artifacts, nodeModules, networkFile, backend,
                   startFile, counters>>

\* both uploadContracts and unsetContracts resolved: unsetSolidityLibs
PushContractsUploaded ==
    /\ op.name = "push" /\ op.pc = "contracts"
    /\ allPromisesResolved({"contract"})
    /\ allPromisesResolved({"unsetContract"})
    /\ op' = [op EXCEPT !.pc = "unsetLibs"]
    /\ Launch(unsetSolidityLibsTasks)
    /\ UNCHANGED <<storage, packageFile, artifacts, nodeModules, networkFile, backend,
                   startFile, counters>>

\* unsetSolidityLibs resolved: push returns
PushDone ==
    /\ op.name = "push" /\ op.pc = "unsetLibs"
    /\ allPromisesResolved({"unsetLib"})
    /\ op' = [op EXCEPT !.pc = "done"]
    /\ counters' = [counters EXCEPT !.cleanPush = TRUE]
    /\ UNCHANGED <<storage, packageFile, artifacts, nodeModules, networkFile, backend, tasks,
                   calls, startFile>>

\* ------------------------------------------------- deployDependencies
\* semver.coerce(version).toString()
coercedString(v) ==
    CASE v = "1.2" -> "1.2.0"
      [] v = "2.0.0-rc.1" -> "2.0.0"
      [] OTHER -> v

\* the package address of a dependency deployed by this project
CustomPackage(d) == <<"package", d, "custom">>

\* Dependency.isDeployedOnNetwork(network)
isDeployedOnNetwork(d) == nodeModules[d].network = "published"

\* deployDependencyIfNeeded up to its first await
deployDependencyLaunch(d) ==
    IF ~satisfiesVersion(nodeModules[d].version, packageFile.dependencies[d]) THEN "failed"
    ELSE IF isDeployedOnNetwork(d) \/ dependencyHasMatchingCustomDeploy(d) THEN "done"
    ELSE "inflight"

deployDependenciesTasks ==
    [t \in {<<"deploy", d>> : d \in dependenciesNames} |-> deployDependencyLaunch(t[2])]

\* deployDependencies: one deployDependencyIfNeeded task per manifest dependency
DeployDependencies ==
    /\ Begin("deployDependencies")
    /\ op' = [IdleOp EXCEPT !.name = "deployDependencies", !.pc = "deploy"]
    /\ tasks' = deployDependenciesTasks
    /\ calls' = [c \in Issued(deployDependenciesTasks) |-> 1]
    /\ UNCHANGED <<networkFile, backend>>

\* dependency.deploy resolved
DeployCallSucceeds(t) ==
    /\ t \in DOMAIN tasks /\ t[1] = "deploy" /\ tasks[t] = "inflight"
    /\ tasks' = [tasks EXCEPT ![t] = "called"]
    /\ UNCHANGED <<storage, packageFile, artifacts, nodeModules, networkFile, backend, op, calls,
                   startFile, counters>>

\* deployDependencyIfNeeded after dependency.deploy resolved
deployDependencyRecord(file, d) ==
    setDependency(file, d, CustomPackage(d), coercedString(nodeModules[d].version), TRUE)

DeployContinues(t) ==
    /\ t \in DOMAIN tasks /\ t[1] = "deploy" /\ tasks[t] = "called"
    /\ networkFile' = deployDependencyRecord(networkFile, t[2])
    /\ tasks' = [tasks EXCEPT ![t] = "done"]
    /\ UNCHANGED <<storage, packageFile, artifacts, nodeModules, backend, op, calls,
                   startFile, counters>>

DeployDependenciesDone ==
    /\ op.name = "deployDependencies" /\ op.pc = "deploy"
    /\ allPromisesResolved({"deploy"})
    /\ op' = [op EXCEPT !.pc = "done"]
    /\ UNCHANGED <<storage, packageFile, artifacts, nodeModules, networkFile, backend, tasks,
                   calls, startFile, counters>>

\* ---------------------------------------------------------------- freeze
\* freeze up to its first await: an unpublished project cannot be frozen
Freeze ==
    /\ Begin("freeze")
    /\ tasks' = Empty
    /\ calls' = Empty
    /\ op' = IF networkFile.package = None
             THEN [IdleOp EXCEPT !.name = "freeze", !.pc = "failed",
                                 !.error = [kind |-> "Unpublished", items |-> {}]]
             ELSE [IdleOp EXCEPT !.name = "freeze", !.pc = "fetch"]
    /\ UNCHANGED <<networkFile, backend>>

\* variant of FreezeFetched that marks the record frozen before project.freeze is awaited
FreezeFetchedFrozen ==
    /\ op.name = "freeze" /\ op.pc = "fetch"
    /\ networkFile' = [registerDeploy(networkFile, networkFile.version) EXCEPT !.frozen = TRUE]
    /\ op' = [op EXCEPT !.pc = "freezing"]
    /\ calls' = IF isPublished THEN Issue({<<"freeze", PkgName>>}) ELSE calls
    /\ UNCHANGED <<storage, packageFile, artifacts, nodeModules, backend, tasks, startFile, counters>>

\* fetchOrDeploy(currentVersion) resolved: the project is asked to freeze
FreezeFetched ==
    /\ op.name = "freeze" /\ op.pc = "fetch"
    /\ networkFile' = registerDeploy(networkFile, networkFile.version)
    /\ op' = [op EXCEPT !.pc = "freezing"]
    /\ calls' = IF isPublished THEN Issue({<<"freeze", PkgName>>}) ELSE calls
    /\ UNCHANGED <<storage, packageFile, artifacts, nodeModules, backend, tasks, startFile, counters>>

\* project.freeze resolved: the record is frozen
FreezeDone ==
    /\ op.name = "freeze" /\ op.pc = "freezing"
    /\ networkFile' = [networkFile EXCEPT !.frozen = TRUE]
    /\ op' = [op EXCEPT !.pc = "done"]
    /\ UNCHANGED <<storage, packageFile, artifacts, nodeModules, backend, tasks, calls,
                   startFile, counters>>

\* project.freeze rejected
FreezeFailed ==
    /\ op.name = "freeze" /\ op.pc = "freezing" /\ isPublished
    /\ op' = [op EXCEPT !.pc = "failed",
                        !.error = [kind |-> "Backend", items |-> {<<"freeze", PkgName>>}]]
    /\ UNCHANGED <<storage, packageFile, artifacts, nodeModules, networkFile, backend, tasks,
                   calls, startFile, counters>>

\* ----------------------------------------------------------------- write
\* what fs.parseJsonIfExists reads back of fs.writeJson(fileName, data): a key
\* whose value is undefined is not written. setDependency gives every entry a
\* customDeploy key, undefined unless the deployment is custom, and createProxy
\* gives every proxy an admin key
stringify(data) ==
    [data EXCEPT
        !.dependencies =
            [d \in DOMAIN @ |->
                IF @[d].customDeploy THEN @[d]
                ELSE [package |-> @[d].package, version |-> @[d].version]],
        !.proxies =
            [f \in DOMAIN @ |->
                [i \in 1 .. Len(@[f]) |->
                    IF @[f][i].admin # None THEN @[f][i]
                    ELSE [address |-> @[f][i].address,
                          version |-> @[f][i].version,
                          implementation |-> @[f][i].implementation,
                          kind |-> @[f][i].kind]]]]

\* hasChanged(): the record in memory is not isEqual to the parsed file, or
\* there is no file
hasChanged(data) == ~storage.exists \/ data # storage.data

\* writeNetworkPackageIfNeeded(): networkFile.write()
WriteNetworkPackageIfNeeded ==
    /\ Finished
    /\ storage.calls < MaxWrites
    /\ storage' =
          IF hasChanged(networkFile)
          THEN [exists |-> TRUE, data |-> stringify(networkFile),
                rewrites |-> storage.rewrites + 1, calls |-> storage.calls + 1,
                seen |-> networkFile, wrote |-> TRUE]
          ELSE [storage EXCEPT !.calls = @ + 1, !.seen = networkFile, !.wrote = FALSE]
    /\ UNCHANGED <<packageFile, artifacts, nodeModules, networkFile, backend, op, tasks,
                   calls, startFile, counters>>

\* ------------------------------------------------------ proxy operations
\* updateZosVersionsIfNeeded(ZOS_VERSION)
updateZosVersionsIfNeeded(file) ==
    IF file.zosversion # ZOS_VERSION THEN [file EXCEPT !.zosversion = ZOS_VERSION] ELSE file

\* _fetchOwnedProxies that asks getProxies for proxies of any kind
fetchOwnedProxiesAnyKind(package, contractAlias, address, owner) ==
    LET proxies == getProxies(networkFile,
                              IF package # None THEN package
                              ELSE IF contractAlias # None THEN PkgName ELSE None,
                              contractAlias, address, None)
        expectedOwner == toChecksumAddress(IF owner # None THEN owner
                                           ELSE networkFile.proxyAdmin)
    IN  {proxy \in proxies :
            \/ proxy.admin = None
            \/ expectedOwner = None
            \/ toChecksumAddress(proxy.admin) = expectedOwner}

\* fetchOwnedProxies that keeps every proxy the criteria select
fetchOwnedProxiesUnfiltered(package, contractAlias, address, owner) ==
    getProxies(networkFile,
               IF package # None THEN package
               ELSE IF contractAlias # None THEN PkgName ELSE None,
               contractAlias, address, "Upgradeable")

\* fetchOwnedProxies(packageName, contractAlias, proxyAddress, ownerAddress)
fetchOwnedProxies(package, contractAlias, address, owner) ==
    LET proxies == getProxies(networkFile,
                              IF package # None THEN package
                              ELSE IF contractAlias # None THEN PkgName ELSE None,
                              contractAlias, address, "Upgradeable")
        expectedOwner == toChecksumAddress(IF owner # None THEN owner
                                           ELSE networkFile.proxyAdmin)
    IN  {proxy \in proxies :
            \/ proxy.admin = None
            \/ expectedOwner = None
            \/ toChecksumAddress(proxy.admin) = expectedOwner}

\* the proxy of the record at an address
ProxyAt(file, address) == CHOOSE proxy \in allProxies(file) : proxy.address = address

\* the answer of project.getImplementation for an alias that is not registered
NoImplementation == <<"impl", None, 0>>

\* project.getImplementation({packageName, contractName})
getImplementation(alias) ==
    IF alias \in DOMAIN backend.impls THEN backend.impls[alias] ELSE NoImplementation

\* the implementation a linked dependency holds for one of its contracts
DependencyImplementation(package, alias) ==
    <<"impl", package, alias, backend.dependencies[package].version>>

\* project.getImplementation({packageName, contractName}) for a proxy of the
\* record: a contract of the project, or of a dependency the backend is linked to
getProxyImplementation(proxy) ==
    IF proxy.package = PkgName THEN getImplementation(proxy.contract)
    ELSE IF proxy.package \in DOMAIN backend.dependencies
         THEN DependencyImplementation(proxy.package, proxy.contract)
         ELSE NoImplementation

\* the packageVersion of _upgradeProxy: currentVersion for a proxy of the
\* project, project.getDependencyVersion(proxy.package) for any other
proxyPackageVersion(file, proxy) ==
    IF proxy.package = PkgName THEN file.version
    ELSE backend.dependencies[proxy.package].version

\* contractManager.getContractClass(proxy.package, proxy.contract) and
\* project.getDependencyVersion find nothing for the proxy
proxyContractMissing(proxy) ==
    IF proxy.package = PkgName THEN proxy.contract \notin contractAliases
    ELSE proxy.package \notin DOMAIN backend.dependencies

\* the implementation the backend gives a proxy of an alias: the registered
\* one, or one it deploys from the local artifact
getOrDeployImplementation(alias) ==
    IF alias \in DOMAIN backend.impls THEN backend.impls[alias]
    ELSE ImplAddress(packageFile.contracts[alias], artifacts[packageFile.contracts[alias]])

\* isMigratableZosversion(version): the schema version predates the threshold
isMigratableZosversion(version) == version = LegacyZosversion

\* the owner _migrate looks for: the app of a published project, else the sender
migrateOwner == IF isPublished THEN networkFile.app ELSE TxFrom

\* the proxies _migrate transfers
migrateProxies == fetchOwnedProxies(None, None, None, migrateOwner)

\* _migrateZosversionIfNeeded that fetches or deploys the proxy admin whether
\* or not there are proxies to transfer
MigrationNeededWithoutProxies == isMigratableZosversion(networkFile.zosversion)

\* _migrateZosversionIfNeeded has proxies to transfer before it advances the version
MigrationNeeded == isMigratableZosversion(networkFile.zosversion) /\ migrateProxies # {}

\* an operation after _migrateZosversionIfNeeded, up to its next await
afterMigration(name, args) ==
    IF name = "createProxy"
    THEN [IdleOp EXCEPT !.name = name, !.pc = "fetch", !.args = args]
    ELSE LET selected == {proxy.address :
                             proxy \in fetchOwnedProxies(args.package, args.contract,
                                                         args.address, None)}
         IN  [IdleOp EXCEPT !.name = name,
                            !.pc = IF selected = {} THEN "done" ELSE "fetch",
                            !.args = args,
                            !.selected = selected]

\* the start of an operation that begins with _migrateZosversionIfNeeded: with
\* nothing to migrate the version is advanced and the operation goes on
StartMigrating(name, args) ==
    /\ Begin(name)
    /\ IF MigrationNeeded
       THEN /\ op' = [IdleOp EXCEPT !.name = name, !.pc = "migrate", !.args = args]
            /\ networkFile' = networkFile
       ELSE /\ op' = afterMigration(name, args)
            /\ networkFile' = updateZosVersionsIfNeeded(networkFile)
    /\ tasks' = Empty
    /\ calls' = Empty
    /\ backend' = backend

\* upgradeProxies and setProxiesAdmin up to their first await
SelectProxies(name, package, contractAlias, address, newAdmin) ==
    StartMigrating(name, [NoArgs EXCEPT !.package = package, !.contract = contractAlias,
                                        !.address = address, !.admin = newAdmin])

UpgradeProxies(package, contractAlias, address) ==
    SelectProxies("upgradeProxies", package, contractAlias, address, None)

SetProxiesAdmin(package, contractAlias, address, newAdmin) ==
    SelectProxies("setProxiesAdmin", package, contractAlias, address, newAdmin)

\* upgradeProxy that upgrades whatever implementation the proxy has
upgradeProxyLaunchAlways(address) ==
    IF proxyContractMissing(ProxyAt(networkFile, address)) THEN "failed"
    ELSE "inflight"

\* upgradeProxy up to project.upgradeProxy: a proxy whose contract is unknown
\* fails, one that is up to date needs no call
upgradeProxyLaunch(address) ==
    LET proxy == ProxyAt(networkFile, address)
    IN  IF proxyContractMissing(proxy) THEN "failed"
        ELSE IF backend.proxies[address].implementation # getProxyImplementation(proxy)
             THEN "inflight"
             ELSE "called"

upgradeProxiesTasks == [t \in {<<"upgrade", a>> : a \in op.selected} |-> upgradeProxyLaunch(t[2])]

\* fetchOrDeploy(currentVersion) resolved in upgradeProxies
UpgradeFetched ==
    /\ op.name = "upgradeProxies" /\ op.pc = "fetch"
    /\ networkFile' = registerDeploy(networkFile, networkFile.version)
    /\ op' = [op EXCEPT !.pc = "upgrade"]
    /\ Launch(upgradeProxiesTasks)
    /\ UNCHANGED <<storage, packageFile, artifacts, nodeModules, backend, startFile, counters>>

\* changeProxiesAdmin that goes on to the record without the backend call
changeProxiesAdminTasksUncalled == [t \in {<<"admin", a>> : a \in op.selected} |-> "called"]

\* changeProxiesAdmin: every task starts with project.changeProxyAdmin
changeProxiesAdminTasks == [t \in {<<"admin", a>> : a \in op.selected} |-> "inflight"]

\* fetchOrDeploy(currentVersion) resolved in setProxiesAdmin
SetAdminFetched ==
    /\ op.name = "setProxiesAdmin" /\ op.pc = "fetch"
    /\ networkFile' = registerDeploy(networkFile, networkFile.version)
    /\ op' = [op EXCEPT !.pc = "admin"]
    /\ Launch(changeProxiesAdminTasks)
    /\ UNCHANGED <<storage, packageFile, artifacts, nodeModules, backend, startFile, counters>>

\* project.upgradeProxy or project.changeProxyAdmin resolved
ProxyCallSucceeds(t) ==
    /\ t \in DOMAIN tasks /\ t[1] \in {"upgrade", "admin"} /\ tasks[t] = "inflight"
    /\ backend' =
          IF t[1] = "upgrade"
          THEN [backend EXCEPT !.proxies[t[2]].implementation =
                    IF ProxyAt(networkFile, t[2]).package = PkgName
                    THEN getOrDeployImplementation(ProxyAt(networkFile, t[2]).contract)
                    ELSE getProxyImplementation(ProxyAt(networkFile, t[2]))]
          ELSE [backend EXCEPT !.proxies[t[2]].admin = op.args.admin]
    /\ tasks' = [tasks EXCEPT ![t] = "called"]
    /\ UNCHANGED <<storage, packageFile, artifacts, nodeModules, networkFile, op, calls,
                   startFile, counters>>

\* _upgradeProxy that records currentVersion for every proxy
upgradeProxyRecordCurrentVersion(file, address) ==
    LET proxy == ProxyAt(file, address)
    IN  updateProxyImplementation(file, proxy.package, proxy.contract, address,
                                  getProxyImplementation(proxy), file.version)

\* upgradeProxy after project.upgradeProxy resolved, or when it was not needed
upgradeProxyRecord(file, address) ==
    LET proxy == ProxyAt(file, address)
    IN  updateProxyImplementation(file, proxy.package, proxy.contract, address,
                                  getProxyImplementation(proxy),
                                  proxyPackageVersion(file, proxy))

\* changeProxiesAdmin after project.changeProxyAdmin resolved
changeProxyAdminRecord(file, address) ==
    LET proxy == ProxyAt(file, address)
    IN  updateProxyAdmin(file, proxy.package, proxy.contract, address, op.args.admin)

ProxyContinues(t) ==
    /\ t \in DOMAIN tasks /\ t[1] \in {"upgrade", "admin"} /\ tasks[t] = "called"
    /\ networkFile' = IF t[1] = "upgrade" THEN upgradeProxyRecord(networkFile, t[2])
                      ELSE changeProxyAdminRecord(networkFile, t[2])
    /\ tasks' = [tasks EXCEPT ![t] = "done"]
    /\ UNCHANGED <<storage, packageFile, artifacts, nodeModules, backend, op, calls,
                   startFile, counters>>

\* the batch of upgradeProxies or setProxiesAdmin resolved: the proxies are returned
ProxiesDone ==
    /\ op.name \in {"upgradeProxies", "setProxiesAdmin"}
    /\ op.pc \in {"upgrade", "admin"}
    /\ allPromisesResolved({"upgrade", "admin"})
    /\ op' = [op EXCEPT !.pc = "done"]
    /\ UNCHANGED <<storage, packageFile, artifacts, nodeModules, networkFile, backend, tasks,
                   calls, startFile, counters>>

\* ------------------------------------------------------------ createProxy
BackendProxyAdmin == "0xAD"      \* the address of the ProxyAdmin the backend deploys
BackendProxyFactory == "0xFA"    \* the address of the ProxyFactory the backend deploys

\* the address the next proxy is created at
NextProxyAddress ==
    ProxyAddrSeq[CHOOSE i \in DOMAIN ProxyAddrSeq :
                    /\ ProxyAddrSeq[i] \notin DOMAIN backend.proxies
                    /\ \A j \in 1 .. i - 1 : ProxyAddrSeq[j] \in DOMAIN backend.proxies]

\* tryRegisterProxyAdmin(): the record takes the admin of the project when it has none
tryRegisterProxyAdmin(file, project) ==
    IF file.proxyAdmin = None /\ project.proxyAdmin # None
    THEN [file EXCEPT !.proxyAdmin = project.proxyAdmin]
    ELSE file

\* tryRegisterProxyFactory(): the record takes the factory of the project when it has none
tryRegisterProxyFactory(file, project) ==
    IF file.proxyFactory = None /\ project.proxyFactory # None
    THEN [file EXCEPT !.proxyFactory = project.proxyFactory]
    ELSE file

\* the finally block of createProxy
createProxyFinally(file, project) ==
    tryRegisterProxyFactory(tryRegisterProxyAdmin(file, project), project)

\* createProxy up to its first await
CreateProxy(contractAlias, admin, salt, kind) ==
    /\ ProxyAddrs \ DOMAIN backend.proxies # {}
    /\ StartMigrating("createProxy", [NoArgs EXCEPT !.package = PkgName,
                                                    !.contract = contractAlias,
                                                    !.admin = admin,
                                                    !.salt = salt,
                                                    !.kind = kind])

\* the backend after getProxyDeploymentAddress(salt): it has a proxy factory
ensureProxyFactory(project) ==
    IF project.proxyFactory = None
    THEN [project EXCEPT !.proxyFactory = BackendProxyFactory]
    ELSE project

\* createProxyInstance that creates a minimal proxy whether or not there is a salt
createProxyInstanceErrorSaltIgnored(kind, salt) ==
    IF kind \notin Kinds THEN "UnknownProxyType" ELSE None

\* the error createProxyInstance throws before any backend call, None when
\* it throws none
createProxyInstanceError(kind, salt) ==
    CASE kind = "Upgradeable" -> None
      [] kind = "Minimal" -> IF salt THEN "MinimalWithSalt" ELSE None
      [] OTHER -> "UnknownProxyType"

\* createProxy that does not look at the code of the deployment address
CreateFetchedAddressUnchecked(occupied) ==
    /\ op.name = "createProxy" /\ op.pc = "fetch"
    /\ LET fetched == registerDeploy(networkFile, networkFile.version)
           project == IF op.args.salt /\ op.args.contract \in contractAliases
                      THEN ensureProxyFactory(backend) ELSE backend
           checked == IF op.args.salt /\ op.args.contract \in contractAliases
                      THEN tryRegisterProxyFactory(fetched, project) ELSE fetched
           fail(kind) ==
               /\ op' = [op EXCEPT !.pc = "failed",
                                   !.args.occupied = occupied,
                                   !.error = [kind |-> kind,
                                              items |-> {<<"proxy", op.args.contract>>}]]
               /\ networkFile' = createProxyFinally(checked, project)
               /\ calls' = calls
       IN  /\ backend' = project
           /\ (occupied => op.args.salt /\ op.args.contract \in contractAliases)
           /\ IF op.args.contract \notin contractAliases THEN fail("NotFound")
              ELSE IF createProxyInstanceError(op.args.kind, op.args.salt) # None
                   THEN fail(createProxyInstanceError(op.args.kind, op.args.salt))
              ELSE /\ op' = [op EXCEPT !.pc = "creating", !.args.occupied = occupied]
                   /\ networkFile' = checked
                   /\ calls' = Issue({<<"createProxy", op.args.contract>>})
    /\ UNCHANGED <<storage, packageFile, artifacts, nodeModules, tasks, startFile, counters>>

\* createProxy from fetchOrDeploy(currentVersion) to the backend call that
\* creates the proxy. occupied: the address of the salt already holds code
\* (ZWeb3.getCode(deploymentAddress) is not '0x')
CreateFetched(occupied) ==
    /\ op.name = "createProxy" /\ op.pc = "fetch"
    /\ LET fetched == registerDeploy(networkFile, networkFile.version)
           project == IF op.args.salt /\ op.args.contract \in contractAliases
                      THEN ensureProxyFactory(backend) ELSE backend
           checked == IF op.args.salt /\ op.args.contract \in contractAliases
                      THEN tryRegisterProxyFactory(fetched, project) ELSE fetched
           fail(kind) ==
               /\ op' = [op EXCEPT !.pc = "failed",
                                   !.args.occupied = occupied,
                                   !.error = [kind |-> kind,
                                              items |-> {<<"proxy", op.args.contract>>}]]
               /\ networkFile' = createProxyFinally(checked, project)
               /\ calls' = calls
       IN  /\ backend' = project
           /\ (occupied => op.args.salt /\ op.args.contract \in contractAliases)
           /\ IF op.args.contract \notin contractAliases THEN fail("NotFound")
              ELSE IF op.args.salt /\ occupied THEN fail("AddressInUse")
              ELSE IF createProxyInstanceError(op.args.kind, op.args.salt) # None
                   THEN fail(createProxyInstanceError(op.args.kind, op.args.salt))
              ELSE /\ op' = [op EXCEPT !.pc = "creating", !.args.occupied = occupied]
                   /\ networkFile' = checked
                   /\ calls' = Issue({<<"createProxy", op.args.contract>>})
    /\ UNCHANGED <<storage, packageFile, artifacts, nodeModules, tasks, startFile, counters>>

\* the state of the backend after it created a proxy: without an explicit
\* admin it has a ProxyAdmin, which is the admin of the new upgradeable proxy
createdBackend(address) ==
    LET ensured == IF op.args.admin = None /\ op.args.kind = "Upgradeable"
                      /\ backend.proxyAdmin = None
                   THEN [backend EXCEPT !.proxyAdmin = BackendProxyAdmin]
                   ELSE backend
    IN  [ensured EXCEPT !.proxies =
            Put(@, address,
                [implementation |-> getOrDeployImplementation(op.args.contract),
                 admin |-> IF op.args.kind = "Minimal" THEN None
                           ELSE IF op.args.admin # None THEN op.args.admin
                           ELSE ensured.proxyAdmin])]

\* createProxy after the proxy was created: the entry added to the record
createProxyRecord(file, address, implementation) ==
    addProxy(file, op.args.package, op.args.contract,
             [address |-> address,
              version |-> file.version,
              implementation |-> implementation,
              admin |-> IF op.args.admin # None THEN op.args.admin ELSE file.proxyAdmin,
              kind |-> op.args.kind])

\* the backend created the proxy: it is recorded, then the finally block runs
CreateSucceeds ==
    /\ op.name = "createProxy" /\ op.pc = "creating"
    /\ LET address == NextProxyAddress
       IN  /\ backend' = createdBackend(address)
           /\ networkFile' =
                 createProxyFinally(
                     createProxyRecord(networkFile, address,
                                       getOrDeployImplementation(op.args.contract)),
                     createdBackend(address))
           /\ op' = [op EXCEPT !.pc = "done", !.args.address = address]
    /\ UNCHANGED <<storage, packageFile, artifacts, nodeModules, tasks, calls, startFile, counters>>

\* the backend failed to create the proxy: only the finally block runs
CreateFails ==
    /\ op.name = "createProxy" /\ op.pc = "creating"
    /\ networkFile' = createProxyFinally(networkFile, backend)
    /\ op' = [op EXCEPT !.pc = "failed",
                        !.error = [kind |-> "Backend",
                                   items |-> {<<"createProxy", op.args.contract>>}]]
    /\ UNCHANGED <<storage, packageFile, artifacts, nodeModules, backend, tasks, calls,
                   startFile, counters>>

\* ------------------------------------------------------------ deployProxyAdmin, deployProxyFactory
\* project.ensureProxyAdmin(): the project deploys a ProxyAdmin when it has none
ensureProxyAdmin(project) ==
    IF project.proxyAdmin = None
    THEN [project EXCEPT !.proxyAdmin = BackendProxyAdmin]
    ELSE project

\* deployProxyAdmin up to its first await
DeployProxyAdmin ==
    /\ Begin("deployProxyAdmin")
    /\ op' = [IdleOp EXCEPT !.name = "deployProxyAdmin", !.pc = "fetch"]
    /\ tasks' = Empty
    /\ calls' = Empty
    /\ UNCHANGED <<networkFile, backend>>

\* deployProxyAdmin that deploys a ProxyAdmin and records it whether or not the
\* record has one
DeployProxyAdminDoneRedeploying ==
    /\ op.name = "deployProxyAdmin" /\ op.pc = "fetch"
    /\ backend' = [backend EXCEPT !.proxyAdmin = "0xBE"]
    /\ networkFile' = [registerDeploy(networkFile, packageFile.version)
                          EXCEPT !.proxyAdmin = "0xBE"]
    /\ op' = [op EXCEPT !.pc = "done"]
    /\ UNCHANGED <<storage, packageFile, artifacts, nodeModules, tasks, calls, startFile, counters>>

\* fetchOrDeploy(packageVersion) and project.ensureProxyAdmin resolved: the
\* admin is registered
DeployProxyAdminDone ==
    /\ op.name = "deployProxyAdmin" /\ op.pc = "fetch"
    /\ backend' = ensureProxyAdmin(backend)
    /\ networkFile' = tryRegisterProxyAdmin(registerDeploy(networkFile, packageFile.version),
                                            ensureProxyAdmin(backend))
    /\ op' = [op EXCEPT !.pc = "done"]
    /\ UNCHANGED <<storage, packageFile, artifacts, nodeModules, tasks, calls, startFile, counters>>

\* deployProxyFactory up to its first await
DeployProxyFactory ==
    /\ Begin("deployProxyFactory")
    /\ op' = [IdleOp EXCEPT !.name = "deployProxyFactory", !.pc = "fetch"]
    /\ tasks' = Empty
    /\ calls' = Empty
    /\ UNCHANGED <<networkFile, backend>>

\* fetchOrDeploy(packageVersion) and project.ensureProxyFactory resolved: the
\* factory is registered
DeployProxyFactoryDone ==
    /\ op.name = "deployProxyFactory" /\ op.pc = "fetch"
    /\ backend' = ensureProxyFactory(backend)
    /\ networkFile' = tryRegisterProxyFactory(registerDeploy(networkFile, packageFile.version),
                                              ensureProxyFactory(backend))
    /\ op' = [op EXCEPT !.pc = "done"]
    /\ UNCHANGED <<storage, packageFile, artifacts, nodeModules, tasks, calls, startFile, counters>>

\* fetchOrDeploy or the project's deployment rejected: nothing is registered,
\* the record holds the deployment when fetchOrDeploy had resolved
DeployProxyFails ==
    /\ op.name \in {"deployProxyAdmin", "deployProxyFactory"} /\ op.pc = "fetch"
    /\ networkFile' \in {networkFile, registerDeploy(networkFile, packageFile.version)}
    /\ op' = [op EXCEPT !.pc = "failed",
                        !.error = [kind |-> "Backend", items |-> {<<op.name, PkgName>>}]]
    /\ UNCHANGED <<storage, packageFile, artifacts, nodeModules, backend, tasks, calls,
                   startFile, counters>>

\* ------------------------------------------------------------ migration
\* the address of the ProxyAdmin that _migrate fetches or deploys
migrateProxyAdmin ==
    IF networkFile.proxyAdmin # None THEN networkFile.proxyAdmin ELSE BackendProxyAdmin

\* _tryRegisterProxyAdmin(adminAddress)
registerProxyAdmin(file, adminAddress) ==
    IF file.proxyAdmin = None THEN [file EXCEPT !.proxyAdmin = adminAddress] ELSE file

\* one task of _migrate up to its backend call: a proxy whose admin is already
\* the proxy admin needs none
migrateProxyLaunch(address) ==
    IF backend.proxies[address].admin # migrateProxyAdmin THEN "inflight" ELSE "done"

migrateTasks ==
    [t \in {<<"migrate", proxy.address>> : proxy \in migrateProxies} |->
        migrateProxyLaunch(t[2])]

\* ProxyAdmin.fetch or ProxyAdmin.deploy resolved: the admin is registered in
\* the record and the transfers are launched
MigrateAdminReady ==
    /\ op.pc = "migrate"
    /\ backend' = [backend EXCEPT !.proxyAdmin = migrateProxyAdmin]
    /\ networkFile' = registerProxyAdmin(networkFile, migrateProxyAdmin)
    /\ op' = [op EXCEPT !.pc = "migrating"]
    /\ Launch(migrateTasks)
    /\ UNCHANGED <<storage, packageFile, artifacts, nodeModules, startFile, counters>>

\* ProxyAdmin.fetch or ProxyAdmin.deploy rejected
MigrateAdminFails ==
    /\ op.pc = "migrate"
    /\ op' = [op EXCEPT !.pc = "failed",
                        !.error = [kind |-> "Backend", items |-> {<<"proxyAdmin", None>>}]]
    /\ UNCHANGED <<storage, packageFile, artifacts, nodeModules, networkFile, backend, tasks,
                   calls, startFile, counters>>

\* AppProxyMigrator or simpleProject.changeProxyAdmin resolved
MigrateCallSucceeds(t) ==
    /\ t \in DOMAIN tasks /\ t[1] = "migrate" /\ tasks[t] = "inflight"
    /\ backend' = [backend EXCEPT !.proxies[t[2]].admin = backend.proxyAdmin]
    /\ tasks' = [tasks EXCEPT ![t] = "done"]
    /\ UNCHANGED <<storage, packageFile, artifacts, nodeModules, networkFile, op, calls,
                   startFile, counters>>

\* the batch of _migrate that ends as soon as every task settled
migrateResolvedSettled == AllSettled({"migrate"})

\* the batch of _migrate resolved
migrateResolved == allPromisesResolved({"migrate"})

\* _migrate returned: _updateZosVersionsIfNeeded, then the operation goes on
MigrateDone ==
    /\ op.pc = "migrating"
    /\ migrateResolved
    /\ networkFile' = updateZosVersionsIfNeeded(networkFile)
    /\ op' = afterMigration(op.name, op.args)
    /\ UNCHANGED <<storage, packageFile, artifacts, nodeModules, backend, tasks, calls,
                   startFile, counters>>

\* ------------------------------------------------------------ specification
\* push, deployDependencies and freeze over every edit of their inputs
Next ==
    \/ EditContracts
    \/ EditVersion
    \/ EditDependencies
    \/ EditArtifact
    \/ EditNodeModules
    \/ \E reupload \in BOOLEAN, force \in BOOLEAN, invalid \in SUBSET Aliases :
          Push(reupload, force, invalid)
    \/ PushFetched
    \/ FetchFailed
    \/ PushDependenciesLinked
    \/ PushLibrariesUploaded
    \/ PushContractsUploaded
    \/ PushDone
    \/ BatchRejected
    \/ DeployDependencies
    \/ DeployDependenciesDone
    \/ \E t \in DOMAIN tasks : DeployCallSucceeds(t)
    \/ \E t \in DOMAIN tasks : DeployContinues(t)
    \/ Freeze
    \/ FreezeFetched
    \/ FreezeDone
    \/ FreezeFailed
    \/ \E t \in DOMAIN tasks : UnlinkChecked(t)
    \/ \E t \in DOMAIN tasks : PushCallSucceeds(t)
    \/ \E t \in DOMAIN tasks : CallFails(t)
    \/ \E t \in DOMAIN tasks : PushContinues(t)

Spec == Init /\ [][Next]_vars

\* the package, contract alias and address that select the proxies of
\* upgradeProxies and setProxiesAdmin
ProxyFilters ==
    {<<None, None, None>>, <<None, "A", None>>, <<PkgName, "A", None>>,
     <<None, "L", None>>, <<None, None, "p1">>, <<PkgName, "A", "p2">>}

\* the admin, salt and kind createProxy is called with
ProxyOptions ==
    {<<None, FALSE, "Upgradeable">>, <<"0xBE", FALSE, "Upgradeable">>,
     <<None, TRUE, "Upgradeable">>, <<None, FALSE, "Minimal">>,
     <<None, TRUE, "Minimal">>, <<None, FALSE, None>>}

\* the proxy operations on what push, freeze, a recompilation and a change of
\* the manifest's version or dependencies leave
NextProxy ==
    \/ EditVersion
    \/ EditArtifact
    \/ EditDependencies
    \/ Push(FALSE, FALSE, {})
    \/ PushFetched
    \/ FetchFailed
    \/ PushDependenciesLinked
    \/ PushLibrariesUploaded
    \/ PushContractsUploaded
    \/ PushDone
    \/ BatchRejected
    \/ Freeze
    \/ FreezeFetched
    \/ FreezeDone
    \/ FreezeFailed
    \/ \E f \in ProxyFilters :
          \/ UpgradeProxies(f[1], f[2], f[3])
          \/ \E newAdmin \in {"0xad", "0xBE"} : SetProxiesAdmin(f[1], f[2], f[3], newAdmin)
    \/ \E contractAlias \in Aliases, o \in ProxyOptions :
          CreateProxy(contractAlias, o[1], o[2], o[3])
    \/ \E occupied \in BOOLEAN : CreateFetched(occupied)
    \/ CreateSucceeds
    \/ CreateFails
    \/ UpgradeFetched
    \/ SetAdminFetched
    \/ ProxiesDone
    \/ \E t \in DOMAIN tasks : ProxyCallSucceeds(t)
    \/ \E t \in DOMAIN tasks : ProxyContinues(t)
    \/ \E t \in DOMAIN tasks : UnlinkChecked(t)
    \/ \E t \in DOMAIN tasks : PushCallSucceeds(t)
    \/ \E t \in DOMAIN tasks : CallFails(t)
    \/ \E t \in DOMAIN tasks : PushContinues(t)

SpecProxy == Init /\ [][NextProxy]_vars

\* the versions an installed dependency declares and the requirements a
\* manifest holds for it, None being a dependency listed without a requirement
InstalledVersions == {"1.2.5", "2.0.0", "1.2", "0.2.1", "2.0.0-rc.1"}
VersionRequirements ==
    {None, "^1.2.0", "^2.0.0", "^0.2.0", "^1.0.0", "1.2.5", "2.0.0-rc.1"}

\* a project with one dependency, over every installed version and requirement
InitVersion ==
    /\ packageFile \in
          {[version |-> "1.0.0", contracts |-> Empty, dependencies |-> [d \in DepNames |-> r],
            isPublished |-> p] : r \in VersionRequirements, p \in BOOLEAN}
    /\ artifacts = [n \in ArtifactNames |-> 1]
    /\ nodeModules \in
          {[d \in DepNames |-> [version |-> v, network |-> n]] :
              v \in InstalledVersions, n \in {"nofile", "unpublished", "published"}}
    /\ networkFile = Defaults
    /\ backend = [impls |-> Empty, dependencies |-> Empty, proxies |-> Empty,
                  proxyAdmin |-> None, proxyFactory |-> None]
    /\ op = IdleOp
    /\ tasks = Empty
    /\ calls = Empty
    /\ startFile = Defaults
    /\ counters = [edits |-> 0, ops |-> 0, cleanPush |-> FALSE]
    /\ storage = NoFile

\* deployDependencies, which builds a Dependency of each manifest entry
NextVersion ==
    \/ DeployDependencies
    \/ DeployDependenciesDone
    \/ BatchRejected
    \/ \E t \in DOMAIN tasks : DeployCallSucceeds(t)
    \/ \E t \in DOMAIN tasks : DeployContinues(t)
    \/ \E t \in DOMAIN tasks : CallFails(t)

SpecVersion == InitVersion /\ [][NextVersion]_vars

\* a project with or without a contract and a dependency, and no record file yet
InitWrite ==
    /\ packageFile \in
          {[version |-> "1.0.0", contracts |-> c, dependencies |-> d, isPublished |-> p] :
              c \in {Empty, [a \in {"A"} |-> "C2"]},
              d \in {Empty, [n \in DepNames |-> "^1.2.0"]},
              p \in BOOLEAN}
    /\ artifacts = [n \in ArtifactNames |-> 1]
    /\ nodeModules \in
          {[d \in DepNames |-> [version |-> "1.2.5", network |-> n]] :
              n \in {"unpublished", "published"}}
    /\ networkFile = Defaults
    /\ backend = [impls |-> Empty, dependencies |-> Empty, proxies |-> Empty,
                  proxyAdmin |-> None, proxyFactory |-> None]
    /\ op = IdleOp
    /\ tasks = Empty
    /\ calls = Empty
    /\ startFile = Defaults
    /\ counters = [edits |-> 0, ops |-> 0, cleanPush |-> FALSE]
    /\ storage = NoFile

\* one run of the CLI: deployDependencies and push, each followed by any
\* number of writes of the record
NextWrite ==
    \/ \E reupload \in BOOLEAN : Push(reupload, FALSE, {})
    \/ PushFetched
    \/ FetchFailed
    \/ PushDependenciesLinked
    \/ PushLibrariesUploaded
    \/ PushContractsUploaded
    \/ PushDone
    \/ BatchRejected
    \/ DeployDependencies
    \/ DeployDependenciesDone
    \/ \E t \in DOMAIN tasks : DeployCallSucceeds(t)
    \/ \E t \in DOMAIN tasks : DeployContinues(t)
    \/ \E t \in DOMAIN tasks : PushCallSucceeds(t)
    \/ \E t \in DOMAIN tasks : CallFails(t)
    \/ \E t \in DOMAIN tasks : PushContinues(t)
    \/ WriteNetworkPackageIfNeeded

SpecWrite == InitWrite /\ [][NextWrite]_vars

\* ------------------------------------------------ the record on its own
RecordPackages == {PkgName, "dep"}
RecordFullNames == {toContractFullName(pkg, a) : pkg \in RecordPackages, a \in Aliases}

\* the proxy entries a record may hold at an address
RecordProxyInfos(address) ==
    {[address |-> address, version |-> "1.0.0", implementation |-> ImplAddress("C1", 1),
      admin |-> admin, kind |-> kind] :
        admin \in {"0xAD"}, kind \in {None} \cup Kinds}

\* the proxies objects of a record: up to two proxies, each at its own
\* address, under any full names and in any order
RecordProxies ==
    {Empty}
    \cup {[f \in {fullname} |-> <<info>>] :
             fullname \in RecordFullNames, info \in RecordProxyInfos("p1")}
    \cup {[f \in {fullname} |-> seq] :
             fullname \in RecordFullNames,
             seq \in {<<a, b>> : a \in RecordProxyInfos("p1"), b \in RecordProxyInfos("p2")}
                   \cup {<<b, a>> : a \in RecordProxyInfos("p1"),
                                   b \in RecordProxyInfos("p2")}}
    \cup UNION {{[f \in {f1, f2} |-> IF f = f1 THEN <<a>> ELSE <<b>>] :
                    f2 \in RecordFullNames \ {f1},
                    a \in RecordProxyInfos("p1"), b \in RecordProxyInfos("p2")} :
                 f1 \in RecordFullNames}

\* a record read from a file with any of these proxies
InitRecord ==
    /\ packageFile = [version |-> "1.0.0", contracts |-> [a \in {"A"} |-> "C1"],
                      dependencies |-> Empty, isPublished |-> FALSE]
    /\ artifacts = [n \in ArtifactNames |-> 1]
    /\ nodeModules = [d \in DepNames |-> [version |-> "1.2.5", network |-> "published"]]
    /\ networkFile \in {[Defaults EXCEPT !.version = "1.0.0", !.proxies = proxies] :
                             proxies \in RecordProxies}
    /\ backend = [impls |-> Empty, dependencies |-> Empty, proxies |-> Empty,
                  proxyAdmin |-> None, proxyFactory |-> None]
    /\ op = IdleOp
    /\ tasks = Empty
    /\ calls = Empty
    /\ startFile = networkFile
    /\ counters = [edits |-> 0, ops |-> 0, cleanPush |-> FALSE]
    /\ storage = NoFile

\* networkFile.updateProxy({package, contract, address}, fn), fn setting the admin
UpdateProxy(package, alias, address, newAdmin) ==
    /\ Begin("updateProxy")
    /\ LET called == [IdleOp EXCEPT !.name = "updateProxy",
                                    !.args = [NoArgs EXCEPT !.package = package,
                                                            !.contract = alias,
                                                            !.address = address,
                                                            !.admin = newAdmin]]
       IN  IF updateProxyThrows(networkFile, package, alias, address)
           THEN /\ op' = [called EXCEPT !.pc = "failed",
                                        !.error = [kind |-> "NotFound",
                                                   items |-> {<<"proxy", address>>}]]
                /\ networkFile' = networkFile
           ELSE /\ op' = [called EXCEPT !.pc = "done"]
                /\ networkFile' = updateProxyAdmin(networkFile, package, alias, address,
                                                   newAdmin)
    /\ tasks' = Empty
    /\ calls' = Empty
    /\ backend' = backend

\* networkFile.getProxies({package, contract, address, kind})
GetProxies(package, alias, address, kind) ==
    /\ Begin("getProxies")
    /\ op' = [IdleOp EXCEPT !.name = "getProxies", !.pc = "done",
                            !.args = [NoArgs EXCEPT !.package = package,
                                                    !.contract = alias,
                                                    !.address = address,
                                                    !.kind = kind],
                            !.selected = getProxies(networkFile, package, alias, address, kind)]
    /\ networkFile' = networkFile
    /\ tasks' = Empty
    /\ calls' = Empty
    /\ backend' = backend

NextRecord ==
    \/ \E package \in RecordPackages, alias \in Aliases, address \in ProxyAddrs,
          newAdmin \in {"0xBE"} :
          UpdateProxy(package, alias, address, newAdmin)
    \/ \E package \in {None, PkgName}, alias \in {None, "A"}, address \in {None, "p1"},
          kind \in Kinds \cup {None} :
          GetProxies(package, alias, address, kind)

SpecRecord == InitRecord /\ [][NextRecord]_vars

\* the proxy entries of a record written before the proxy admin existed: no
\* kind, and an admin only when one was given at creation
LegacyProxyInfo(address, admin) ==
    [address |-> address, version |-> "1.0.0", implementation |-> ImplAddress("C2", 1),
     admin |-> admin, kind |-> None]

LegacyProxies ==
    {Empty}
    \cup {[f \in {toContractFullName(PkgName, "A")} |-> seq] :
             seq \in {<<LegacyProxyInfo("p1", None)>>,
                      <<LegacyProxyInfo("p1", "0xBE")>>,
                      <<LegacyProxyInfo("p1", TxFrom)>>,
                      <<LegacyProxyInfo("p1", None), LegacyProxyInfo("p2", None)>>,
                      <<LegacyProxyInfo("p1", None), LegacyProxyInfo("p2", "0xBE")>>}}

\* a project deployed under the legacy schema version: its proxies are
\* administered by the app of a published project, else by the sender
InitMigrate ==
    /\ packageFile \in
          {[version |-> "1.0.0", contracts |-> [a \in {"A"} |-> "C2"],
            dependencies |-> Empty, isPublished |-> p] : p \in BOOLEAN}
    /\ artifacts = [n \in ArtifactNames |-> 1]
    /\ nodeModules = [d \in DepNames |-> [version |-> "1.2.5", network |-> "published"]]
    /\ networkFile \in
          {[addContract(Defaults, "A", "C2") EXCEPT
                !.zosversion = LegacyZosversion, !.version = "1.0.0",
                !.app = app, !.package = IF app = None THEN None ELSE "0xPkg",
                !.proxies = proxies] :
              app \in IF packageFile.isPublished THEN {None, "0xApp"} ELSE {None},
              proxies \in LegacyProxies}
    /\ backend =
          [impls |-> [a \in {"A"} |-> ImplAddress("C2", 1)],
           dependencies |-> Empty,
           proxies |-> [a \in {proxy.address : proxy \in allProxies(networkFile)} |->
                           [implementation |-> ImplAddress("C2", 1),
                            admin |-> IF ProxyAt(networkFile, a).admin # None
                                      THEN ProxyAt(networkFile, a).admin
                                      ELSE IF networkFile.app # None THEN networkFile.app
                                      ELSE TxFrom]],
           proxyAdmin |-> None, proxyFactory |-> None]
    /\ op = IdleOp
    /\ tasks = Empty
    /\ calls = Empty
    /\ startFile = networkFile
    /\ counters = [edits |-> 0, ops |-> 0, cleanPush |-> FALSE]
    /\ storage = NoFile

\* the operations that start with _migrateZosversionIfNeeded, on a legacy record
NextMigrate ==
    \/ \E f \in {<<None, None, None>>, <<None, "A", None>>, <<None, None, "p2">>} :
          \/ UpgradeProxies(f[1], f[2], f[3])
          \/ SetProxiesAdmin(f[1], f[2], f[3], "0xBE")
    \/ \E o \in {<<None, FALSE, "Upgradeable">>, <<"0xBE", FALSE, "Upgradeable">>} :
          CreateProxy("A", o[1], o[2], o[3])
    \/ MigrateAdminReady
    \/ MigrateAdminFails
    \/ \E t \in DOMAIN tasks : MigrateCallSucceeds(t)
    \/ MigrateDone
    \/ BatchRejected
    \/ CreateFetched(FALSE)
    \/ CreateSucceeds
    \/ CreateFails
    \/ UpgradeFetched
    \/ SetAdminFetched
    \/ ProxiesDone
    \/ \E t \in DOMAIN tasks : ProxyCallSucceeds(t)
    \/ \E t \in DOMAIN tasks : ProxyContinues(t)
    \/ \E t \in DOMAIN tasks : CallFails(t)

SpecMigrate == InitMigrate /\ [][NextMigrate]_vars

\* a released project: its contract, the library of the contract and one proxy
\* are recorded at version 1.0.0, and the manifest holds that or the next version
InitRelease ==
    /\ packageFile \in
          {[version |-> v, contracts |-> [a \in {"A"} |-> "C2"],
            dependencies |-> Empty, isPublished |-> p] :
              v \in PkgVersions, p \in BOOLEAN}
    /\ artifacts = [n \in ArtifactNames |-> 1]
    /\ nodeModules = [d \in DepNames |-> [version |-> "1.2.5", network |-> "published"]]
    /\ networkFile \in
          {[addSolidityLib(addContract(Defaults, "A", "C2"), "L") EXCEPT
                !.version = "1.0.0",
                !.app = app, !.package = IF app = None THEN None ELSE "0xPkg",
                !.frozen = frozen,
                !.proxyAdmin = BackendProxyAdmin,
                !.proxies = [f \in {toContractFullName(PkgName, "A")} |->
                                <<[address |-> "p1", version |-> "1.0.0",
                                   implementation |-> ImplAddress("C2", 1),
                                   admin |-> BackendProxyAdmin,
                                   kind |-> "Upgradeable"]>>]] :
              app \in {None, "0xApp"}, frozen \in BOOLEAN}
    /\ networkFile.frozen => networkFile.app # None
    /\ backend =
          [impls |-> [n \in {"A", "L"} |->
                         IF n = "A" THEN ImplAddress("C2", 1) ELSE ImplAddress("L", 1)],
           dependencies |-> Empty,
           proxies |-> [a \in {"p1"} |-> [implementation |-> ImplAddress("C2", 1),
                                          admin |-> BackendProxyAdmin]],
           proxyAdmin |-> BackendProxyAdmin, proxyFactory |-> None]
    /\ op = IdleOp
    /\ tasks = Empty
    /\ calls = Empty
    /\ startFile = networkFile
    /\ counters = [edits |-> 0, ops |-> 0, cleanPush |-> FALSE]
    /\ storage = NoFile

\* pushes of a released project between changes of its version, contracts
\* and artifacts
NextRelease ==
    \/ EditVersion
    \/ EditContracts
    \/ EditArtifact
    \/ \E reupload \in BOOLEAN, force \in BOOLEAN, invalid \in SUBSET {"A"} :
          Push(reupload, force, invalid)
    \/ PushFetched
    \/ FetchFailed
    \/ PushDependenciesLinked
    \/ PushLibrariesUploaded
    \/ PushContractsUploaded
    \/ PushDone
    \/ BatchRejected
    \/ \E t \in DOMAIN tasks : PushCallSucceeds(t)
    \/ \E t \in DOMAIN tasks : CallFails(t)
    \/ \E t \in DOMAIN tasks : PushContinues(t)

SpecRelease == InitRelease /\ [][NextRelease]_vars

\* an unpublished project before its first push, whose manifest holds a
\* contract under the alias L or a contract that references the library L
InitLibraries ==
    /\ packageFile \in
          {[version |-> "1.0.0", contracts |-> c, dependencies |-> Empty,
            isPublished |-> FALSE] :
              c \in {[a \in {"L"} |-> "C1"], [a \in {"A"} |-> "C2"]}}
    /\ artifacts = [n \in ArtifactNames |-> 1]
    /\ nodeModules = [d \in DepNames |-> [version |-> "1.2.5", network |-> "published"]]
    /\ networkFile = Defaults
    /\ backend = [impls |-> Empty, dependencies |-> Empty, proxies |-> Empty,
                  proxyAdmin |-> None, proxyFactory |-> None]
    /\ op = IdleOp
    /\ tasks = Empty
    /\ calls = Empty
    /\ startFile = Defaults
    /\ counters = [edits |-> 0, ops |-> 0, cleanPush |-> FALSE]
    /\ storage = NoFile

\* pushes between changes of the contracts of the manifest and recompilations
NextLibraries ==
    \/ EditContracts
    \/ EditArtifact
    \/ \E reupload \in BOOLEAN : Push(reupload, FALSE, {})
    \/ PushFetched
    \/ FetchFailed
    \/ PushDependenciesLinked
    \/ PushLibrariesUploaded
    \/ PushContractsUploaded
    \/ PushDone
    \/ BatchRejected
    \/ \E t \in DOMAIN tasks : PushCallSucceeds(t)
    \/ \E t \in DOMAIN tasks : CallFails(t)
    \/ \E t \in DOMAIN tasks : PushContinues(t)

SpecLibraries == InitLibraries /\ [][NextLibraries]_vars

\* a project whose manifest dropped the alias A and the dependency dep2 that
\* the record holds, and added the alias L and the dependency dep; dep2 may
\* or may not be linked on the backend
InitSiblings ==
    /\ packageFile = [version |-> "1.0.0", contracts |-> [a \in {"L"} |-> "C1"],
                      dependencies |-> [d \in {"dep"} |-> "^1.2.0"],
                      isPublished |-> FALSE]
    /\ artifacts = [n \in ArtifactNames |-> 1]
    /\ nodeModules = [d \in {"dep", "dep2"} |->
                         [version |-> "1.2.5", network |-> "published"]]
    /\ networkFile =
          [setDependency(addContract(Defaults, "A", "C1"), "dep2",
                         DependencyPackage("dep2"), "1.2.5", FALSE)
              EXCEPT !.version = "1.0.0"]
    /\ backend \in
          {[impls |-> [a \in {"A"} |-> ImplAddress("C1", 1)],
            dependencies |-> linked, proxies |-> Empty,
            proxyAdmin |-> None, proxyFactory |-> None] :
              linked \in {Empty, [d \in {"dep2"} |->
                                     [package |-> DependencyPackage("dep2"),
                                      version |-> "1.2.5"]]}}
    /\ op = IdleOp
    /\ tasks = Empty
    /\ calls = Empty
    /\ startFile = networkFile
    /\ counters = [edits |-> 0, ops |-> 0, cleanPush |-> FALSE]
    /\ storage = NoFile

\* the pushes of that project, between recompilations
NextSiblings ==
    \/ EditArtifact
    \/ Push(FALSE, FALSE, {})
    \/ PushFetched
    \/ FetchFailed
    \/ PushDependenciesLinked
    \/ PushLibrariesUploaded
    \/ PushContractsUploaded
    \/ PushDone
    \/ BatchRejected
    \/ \E t \in DOMAIN tasks : UnlinkChecked(t)
    \/ \E t \in DOMAIN tasks : PushCallSucceeds(t)
    \/ \E t \in DOMAIN tasks : CallFails(t)
    \/ \E t \in DOMAIN tasks : PushContinues(t)

SpecSiblings == InitSiblings /\ [][NextSiblings]_vars

\* a project whose record holds an entry for its dependency, published or
\* custom, made under an earlier requirement, with either release installed
InitRelink ==
    /\ packageFile = [version |-> "1.0.0", contracts |-> Empty,
                      dependencies |-> [d \in {"dep"} |-> "^2.0.0"],
                      isPublished |-> FALSE]
    /\ artifacts = [n \in ArtifactNames |-> 1]
    /\ nodeModules \in
          {[d \in DepNames |-> [version |-> v, network |-> n]] :
              v \in DepVersions, n \in {"unpublished", "published"}}
    /\ \E v \in DepVersions, custom \in BOOLEAN :
          LET package == IF custom THEN CustomPackage("dep")
                         ELSE <<"package", "dep", v>>
          IN  /\ networkFile =
                    [setDependency(Defaults, "dep", package, v, custom)
                        EXCEPT !.version = "1.0.0"]
              /\ backend = [impls |-> Empty,
                            dependencies |-> [d \in {"dep"} |->
                                                 [package |-> package, version |-> v]],
                            proxies |-> Empty, proxyAdmin |-> None,
                            proxyFactory |-> None]
    /\ op = IdleOp
    /\ tasks = Empty
    /\ calls = Empty
    /\ startFile = networkFile
    /\ counters = [edits |-> 0, ops |-> 0, cleanPush |-> FALSE]
    /\ storage = NoFile

\* the pushes of that project, between changes of the requirement and of
\* the installed release
NextRelink ==
    \/ EditDependencies
    \/ EditNodeModules
    \/ Push(FALSE, FALSE, {})
    \/ PushFetched
    \/ FetchFailed
    \/ PushDependenciesLinked
    \/ PushLibrariesUploaded
    \/ PushContractsUploaded
    \/ PushDone
    \/ BatchRejected
    \/ \E t \in DOMAIN tasks : UnlinkChecked(t)
    \/ \E t \in DOMAIN tasks : PushCallSucceeds(t)
    \/ \E t \in DOMAIN tasks : CallFails(t)
    \/ \E t \in DOMAIN tasks : PushContinues(t)

SpecRelink == InitRelink /\ [][NextRelink]_vars

\* a project with a proxy of its own contract and a proxy of a contract of
\* its dependency, both made when the contract was at its first revision and
\* the dependency at 1.2.5; the contract has been pushed again or not and
\* the backend is linked to either release of the dependency
InitDependencyProxy ==
    /\ \E v \in DepVersions :
          /\ packageFile = [version |-> "1.0.0", contracts |-> [a \in {"A"} |-> "C1"],
                            dependencies |->
                                [d \in {"dep"} |-> IF v = "1.2.5" THEN "^1.2.0" ELSE "^2.0.0"],
                            isPublished |-> FALSE]
          /\ nodeModules = [d \in DepNames |-> [version |-> v, network |-> "published"]]
          /\ artifacts \in {[n \in ArtifactNames |-> IF n = "C1" THEN r ELSE 1] : r \in Revs}
          /\ networkFile =
                [setDependency(addContract(Defaults, "A", "C1"), "dep",
                               <<"package", "dep", v>>, v, FALSE)
                    EXCEPT !.version = "1.0.0",
                           !.proxyAdmin = "0xAD",
                           !.proxies =
                               (toContractFullName("dep", "A") :>
                                    <<[address |-> "p1", version |-> "1.2.5",
                                       implementation |-> <<"impl", "dep", "A", "1.2.5">>,
                                       admin |-> "0xAD", kind |-> "Upgradeable"]>>)
                               @@ (toContractFullName(PkgName, "A") :>
                                    <<[address |-> "p2", version |-> "1.0.0",
                                       implementation |-> ImplAddress("C1", 1),
                                       admin |-> "0xAD", kind |-> "Upgradeable"]>>)]
          /\ backend =
                [impls |-> [a \in {"A"} |-> ImplAddress("C1", artifacts["C1"])],
                 dependencies |-> [d \in {"dep"} |->
                                      [package |-> <<"package", "dep", v>>, version |-> v]],
                 proxies |->
                     ("p1" :> [implementation |-> <<"impl", "dep", "A", "1.2.5">>,
                               admin |-> "0xAD"])
                     @@ ("p2" :> [implementation |-> ImplAddress("C1", 1),
                                  admin |-> "0xAD"]),
                 proxyAdmin |-> "0xAD", proxyFactory |-> None]
    /\ op = IdleOp
    /\ tasks = Empty
    /\ calls = Empty
    /\ startFile = networkFile
    /\ counters = [edits |-> 0, ops |-> 0, cleanPush |-> FALSE]
    /\ storage = NoFile

\* upgradeProxies of that project, between changes of the manifest version
NextDependencyProxy ==
    \/ EditVersion
    \/ \E f \in {<<None, None, None>>, <<"dep", "A", None>>, <<None, "A", None>>,
                  <<None, None, "p1">>} :
          UpgradeProxies(f[1], f[2], f[3])
    \/ UpgradeFetched
    \/ ProxiesDone
    \/ BatchRejected
    \/ \E t \in DOMAIN tasks : ProxyCallSucceeds(t)
    \/ \E t \in DOMAIN tasks : ProxyContinues(t)
    \/ \E t \in DOMAIN tasks : CallFails(t)

SpecDependencyProxy == InitDependencyProxy /\ [][NextDependencyProxy]_vars

\* ------------------------------------------------------------ registration of admin and factory
\* the operations that register a ProxyAdmin or a ProxyFactory, on a legacy record
NextRegister ==
    \/ NextMigrate
    \/ CreateProxy("A", None, TRUE, "Upgradeable")
    \/ DeployProxyAdmin
    \/ DeployProxyAdminDone
    \/ DeployProxyFactory
    \/ DeployProxyFactoryDone
    \/ DeployProxyFails

SpecRegister == InitMigrate /\ [][NextRegister]_vars

\* ------------------------------------------------------------------ claims
\* the operation in progress is a push without reupload that started right
\* after a push that returned, with no edit in between
RepeatedPush == op.name = "push" /\ op.repeat /\ ~op.reupload

\* C1 as stated: a repeated push makes no backend call and leaves the record
\* as it was
CE_C1 == RepeatedPush => TotalCalls = {} /\ networkFile = startFile

\* C1, amended: a repeated push leaves the record as it was and makes no
\* backend call but setDependency, once, for a manifest dependency that the
\* record holds as a custom deployment matching the manifest's requirement
Thm_C1 ==
    RepeatedPush =>
        /\ networkFile = startFile
        /\ \A c \in TotalCalls :
              /\ c[1] = "setDependency"
              /\ calls[c] = 1
              /\ c[2] \in dependenciesNames
              /\ c[2] \in DOMAIN startFile.dependencies
              /\ startFile.dependencies[c[2]].customDeploy
              /\ satisfiesVersion(startFile.dependencies[c[2]].version,
                                  packageFile.dependencies[c[2]])

\* a repeated push of a manifest with a contract and a custom deployment
\* returned after its one setDependency call
W_C1 ==
    /\ RepeatedPush
    /\ op.pc = "done"
    /\ contractAliases # {}
    /\ TotalCalls = {<<"setDependency", "dep">>}

\* C2: the contract delta of a push without reupload holds a manifest
\* contract exactly when the record has no entry for it, or the hash of its
\* bytecode is not the recorded one, or a new package version is required,
\* or a library its bytecode references is in the library delta
Thm_C2 ==
    (op.name = "push" /\ ~op.reupload /\ op.error.kind # "NamingCollision") =>
        op.contracts =
            {a \in DOMAIN packageFile.contracts :
                \/ a \notin DOMAIN startFile.contracts
                \/ bytecodeDigest(packageFile.contracts[a], artifacts[packageFile.contracts[a]])
                      # startFile.contracts[a].localBytecodeHash
                \/ packageFile.version # startFile.version
                      /\ (packageFile.isPublished \/ startFile.app # None)
                \/ getSolidityLibNames(packageFile.contracts[a]) \cap op.changedLibraries # {}}

\* a push whose delta holds a recorded, unchanged contract only because the
\* library it references changed
W_C2 ==
    /\ op.name = "push" /\ ~op.reupload /\ ~op.newVersion
    /\ "A" \in op.contracts
    /\ "A" \in DOMAIN startFile.contracts
    /\ bytecodeDigest(packageFile.contracts["A"], artifacts[packageFile.contracts["A"]])
          = startFile.contracts["A"].localBytecodeHash
    /\ op.changedLibraries = {"L"}

\* the kinds of the tasks of each batch
BatchKinds ==
    {{"link", "relink", "unlink"}, {"lib"}, {"contract"}, {"unsetContract"}, {"unsetLib"},
     {"upgrade"}, {"admin"}}

\* the proxy of the record at an address has this admin
RecordedAdmin(address, admin) ==
    \E proxy \in allProxies(networkFile) : proxy.address = address /\ proxy.admin = admin

\* the record holds what the task that returned was to write in it
Recorded(t) ==
    CASE t[1] = "link" ->
            /\ t[2] \in DOMAIN networkFile.dependencies
            /\ satisfiesVersion(networkFile.dependencies[t[2]].version,
                                packageFile.dependencies[t[2]])
            /\ CallCount(<<"setDependency", t[2]>>) > 0 =>
                  /\ networkFile.dependencies[t[2]].package = DependencyPackage(t[2])
                  /\ networkFile.dependencies[t[2]].version = nodeModules[t[2]].version
      [] t[1] = "relink" -> t[2] \in DOMAIN networkFile.dependencies
      [] t[1] = "unlink" -> t[2] \notin DOMAIN networkFile.dependencies
      [] t[1] = "lib" ->
            /\ t[2] \in DOMAIN networkFile.solidityLibs
            /\ networkFile.solidityLibs[t[2]].localBytecodeHash
                  = bytecodeDigest(t[2], artifacts[t[2]])
      [] t[1] = "contract" ->
            /\ t[2] \in DOMAIN networkFile.contracts
            /\ networkFile.contracts[t[2]].localBytecodeHash
                  = bytecodeDigest(packageFile.contracts[t[2]],
                                   artifacts[packageFile.contracts[t[2]]])
      [] t[1] = "unsetContract" -> t[2] \notin DOMAIN networkFile.contracts
      [] t[1] = "unsetLib" -> t[2] \notin DOMAIN networkFile.solidityLibs
      [] t[1] = "upgrade" ->
            \E proxy \in allProxies(networkFile) :
                /\ proxy.address = t[2]
                /\ proxy.implementation = getImplementation(proxy.contract)
                /\ proxy.version = networkFile.version
      [] t[1] = "admin" -> RecordedAdmin(t[2], op.args.admin)

\* the positions at which an operation awaits its batches
BatchPhases == {"dependencies", "libraries", "contracts", "unsetLibs", "upgrade", "admin"}

\* once a batch raised its error: every task of the batch has settled, the
\* error names exactly the tasks that failed, and the record holds what the
\* tasks that returned wrote
BatchErrorAggregates ==
    op.error.kind = "Batch" =>
        \E kinds \in BatchKinds :
            /\ op.error.items # {}
            /\ op.error.items = Failures(kinds)
            /\ AllSettled(kinds)
            /\ \A t \in TasksOf(kinds) : tasks[t] = "done" => Recorded(t)

\* an operation goes on past its batches only when every task returned
BatchSucceedsOnlyIfAll ==
    (op.pc \in BatchPhases /\ op'.pc \notin {op.pc, "failed"}) =>
        \A t \in DOMAIN tasks : tasks[t] = "done" /\ Recorded(t)

\* C3: a batch succeeds only if all its tasks succeed; when some fail it
\* raises one error, after every task has settled, that names every failed
\* task, and the record holds the mutations of the tasks that succeeded
Thm_C3 == []BatchErrorAggregates /\ [][BatchSucceedsOnlyIfAll]_vars

\* setProxiesAdmin raised the error of a batch of two admin changes of which
\* one failed and one was recorded
W_C3 ==
    /\ op.name = "setProxiesAdmin" /\ op.pc = "failed" /\ op.error.kind = "Batch"
    /\ \E failed \in ProxyAddrs, done \in ProxyAddrs :
          /\ op.error.items = {<<"admin", failed>>}
          /\ <<"admin", done>> \in DOMAIN tasks
          /\ tasks[<<"admin", done>>] = "done"
          /\ RecordedAdmin(done, op.args.admin)
          /\ ~RecordedAdmin(failed, op.args.admin)

ProxyBatch == op.name \in {"upgradeProxies", "setProxiesAdmin"}

\* no backend call for the proxy at an address, and its entry as it was
Untouched(proxy) ==
    /\ CallCount(<<"upgradeProxy", proxy.address>>) = 0
    /\ CallCount(<<"changeProxyAdmin", proxy.address>>) = 0
    /\ proxy \in allProxies(networkFile)

\* C4 as stated: upgradeProxies and setProxiesAdmin leave alone every proxy
\* whose recorded admin is not the proxyAdmin address of the record
CE_C4 ==
    ProxyBatch =>
        \A proxy \in allProxies(startFile) :
            (proxy.admin # None /\ proxy.admin # startFile.proxyAdmin) => Untouched(proxy)

\* C4, amended: when the record has a proxyAdmin address, upgradeProxies and
\* setProxiesAdmin leave alone every proxy that has a recorded admin which,
\* as a checksummed address, is not that address
Thm_C4 ==
    ProxyBatch =>
        \A proxy \in allProxies(startFile) :
            (/\ proxy.admin # None
             /\ startFile.proxyAdmin # None
             /\ toChecksumAddress(proxy.admin) # toChecksumAddress(startFile.proxyAdmin))
                => Untouched(proxy)

\* a batch returned that changed one proxy and passed over one of another admin
W_C4 ==
    /\ ProxyBatch /\ op.pc = "done"
    /\ TotalCalls # {}
    /\ \E proxy \in allProxies(startFile) :
          /\ proxy.admin # None
          /\ startFile.proxyAdmin # None
          /\ toChecksumAddress(proxy.admin) # toChecksumAddress(startFile.proxyAdmin)
          /\ proxy.kind = "Upgradeable"

\* contracts and solidityLibs are as they were when the operation started
SameContracts ==
    /\ networkFile.contracts = startFile.contracts
    /\ networkFile.solidityLibs = startFile.solidityLibs

FrozenUpgrade ==
    /\ op.name = "upgradeProxies" /\ startFile.frozen /\ op.pc = "done"
    /\ TotalCalls # {}

\* the entry of the record for a dependency, none when there is no entry
DependencyEntry(file, d) ==
    IF d \in DOMAIN file.dependencies THEN <<file.dependencies[d]>> ELSE << >>

\* the record satisfied the manifest's requirement of d when the push started
SatisfiedAtStart(d) ==
    /\ d \in DOMAIN startFile.dependencies
    /\ satisfiesVersion(startFile.dependencies[d].version, packageFile.dependencies[d])

\* the record held a custom deployment of d when the push started
CustomAtStart(d) == SatisfiedAtStart(d) /\ startFile.dependencies[d].customDeploy

\* the entry that linking d to the package published on the network writes
PublishedEntry(d) ==
    [package |-> DependencyPackage(d), version |-> nodeModules[d].version,
     customDeploy |-> FALSE]

\* the status of the linkDependency task of d, none when none is in flight
LinkStatus(d) ==
    IF <<"link", d>> \in DOMAIN tasks THEN tasks[<<"link", d>>]
    ELSE IF <<"relink", d>> \in DOMAIN tasks THEN tasks[<<"relink", d>>]
    ELSE None

\* handleDependenciesLink returned
PastLinking ==
    \/ op.pc \in {"libraries", "contracts", "unsetLibs", "done"}
    \/ op.pc = "failed" /\ op.error.kind = "Frozen"

LinkReturned(d) == LinkStatus(d) = "done" \/ PastLinking

TaskEntry(file, t) ==
    CASE t[1] \in {"contract", "unsetContract"} ->
            IF t[2] \in DOMAIN file.contracts THEN <<file.contracts[t[2]]>> ELSE << >>
      [] t[1] \in {"lib", "unsetLib"} ->
            IF t[2] \in DOMAIN file.solidityLibs THEN <<file.solidityLibs[t[2]]>> ELSE << >>
      [] OTHER -> DependencyEntry(file, t[2])

\* the task whose backend call succeeded goes on to write the record
Continues(t) == t \in DOMAIN tasks /\ tasks[t] = "called" /\ tasks'[t] = "done"

\* C7 as stated, for the entries of contracts: in a push an entry is deleted
\* only once unsetImplementation succeeded for its alias
CE_C7 ==
    [][op'.name = "push" =>
          \A a \in DOMAIN networkFile.contracts \ DOMAIN networkFile'.contracts :
              Continues(<<"unsetContract", a>>)]_vars

\* the record changes at most in what fetchOrDeploy registers
RegistersDeploy ==
    networkFile' = [networkFile EXCEPT !.version = networkFile'.version,
                                       !.app = networkFile'.app,
                                       !.package = networkFile'.package]

\* a step of push up to the end of fetchOrDeploy: when the push starts, is not
\* refused and requires a new package version, frozen is cleared and contracts
\* emptied before any backend call; otherwise only fetchOrDeploy writes
BeforeTasks ==
    /\ networkFile'.solidityLibs = networkFile.solidityLibs
    /\ networkFile'.dependencies = networkFile.dependencies
    /\ networkFile'.proxies = networkFile.proxies
    /\ IF counters'.ops # counters.ops
       THEN /\ calls' = Empty
            /\ networkFile' = IF op'.newVersion /\ op'.pc = "fetch"
                              THEN [networkFile EXCEPT !.frozen = FALSE, !.contracts = Empty]
                              ELSE networkFile
       ELSE RegistersDeploy

\* a step of a task of push: the record changes only in the entry of a task
\* whose backend call succeeded, and a task whose call failed leaves its entry
TaskWrites ==
    /\ \A t \in DOMAIN tasks :
          tasks[t] = "failed" => TaskEntry(networkFile', t) = TaskEntry(networkFile, t)
    /\ networkFile' # networkFile =>
          \E t \in DOMAIN tasks :
              /\ Continues(t)
              /\ \A n \in Names :
                    /\ n # t[2] =>
                          /\ TaskEntry(networkFile', <<"contract", n>>)
                                = TaskEntry(networkFile, <<"contract", n>>)
                          /\ TaskEntry(networkFile', <<"lib", n>>)
                                = TaskEntry(networkFile, <<"lib", n>>)
              /\ networkFile'.frozen = networkFile.frozen
              /\ networkFile'.version = networkFile.version

\* C7, amended: apart from checkVersion, which unfreezes the record and
\* empties its contracts before any backend call when a new package version
\* is required, and from what fetchOrDeploy registers, a push changes the
\* record only in the entry of a task whose backend call succeeded, and a
\* task whose call failed leaves its entry as it was
Thm_C7 ==
    [][op'.name = "push" =>
          IF counters'.ops # counters.ops \/ op.pc = "fetch"
          THEN BeforeTasks
          ELSE TaskWrites]_vars

\* the upload of a contract failed and left no entry while the library it
\* references was uploaded and recorded
W_C7 ==
    /\ op.name = "push"
    /\ <<"contract", "A">> \in DOMAIN tasks
    /\ tasks[<<"contract", "A">>] = "failed"
    /\ CallCount(<<"setImplementation", "A">>) = 1
    /\ "A" \notin DOMAIN networkFile.contracts
    /\ "L" \in DOMAIN networkFile.solidityLibs
    /\ CallCount(<<"setImplementation", "L">>) = 1

\* C8: a push without force of a delta that holds a contract failing
\* validation raises the validation error before any backend call and with
\* the record as it was
Thm_C8 ==
    (op.name = "push" /\ op.invalid # {} /\ ~op.force) =>
        /\ op.pc = "failed"
        /\ op.error.kind = "ValidationFailure"
        /\ TotalCalls = {}
        /\ tasks = Empty
        /\ networkFile = startFile

\* a push that required a new package version on a record with contracts was
\* refused by the validation
W_C8 ==
    /\ op.name = "push" /\ op.invalid # {} /\ ~op.force
    /\ op.error.kind = "ValidationFailure"
    /\ op.newVersion
    /\ startFile.contracts # Empty

\* a library that a contract of the manifest references has the name of an
\* alias of the manifest
ManifestClash ==
    \E a \in DOMAIN packageFile.contracts :
        getSolidityLibNames(packageFile.contracts[a]) \cap DOMAIN packageFile.contracts # {}

\* C9: a push of a manifest in which a referenced library has the name of a
\* contract alias raises the naming-collision error before any backend call
\* and leaves the record as it was
Thm_C9 ==
    (op.name = "push" /\ ManifestClash) =>
        /\ op.pc = "failed"
        /\ op.error.kind = "NamingCollision"
        /\ TotalCalls = {}
        /\ tasks = Empty
        /\ networkFile = startFile

\* a push on a record with contracts was refused for a clash
W_C9 ==
    /\ op.name = "push" /\ ManifestClash
    /\ op.error.kind = "NamingCollision"
    /\ startFile.contracts # Empty

\* the hash of the bytecode of an artifact
CurrentHash(name) == bytecodeDigest(name, artifacts[name])

\* C10 as stated: hasSameBytecode is true exactly when the hash of the
\* artifact is the localBytecodeHash of the contracts entry of the alias
CE_C10 ==
    \A alias \in Names, name \in ArtifactNames :
        hasSameBytecode(alias, name) <=>
            /\ alias \in DOMAIN networkFile.contracts
            /\ CurrentHash(name) = networkFile.contracts[alias].localBytecodeHash

\* C10, amended: hasSameBytecode is true exactly when the hash of the
\* artifact is the localBytecodeHash of the contracts entry of the alias or,
\* when contracts has no such entry, of the solidityLibs entry of that name
Thm_C10 ==
    \A alias \in Names, name \in ArtifactNames :
        hasSameBytecode(alias, name) <=>
            IF alias \in DOMAIN networkFile.contracts
            THEN CurrentHash(name) = networkFile.contracts[alias].localBytecodeHash
            ELSE /\ alias \in DOMAIN networkFile.solidityLibs
                 /\ CurrentHash(name) = networkFile.solidityLibs[alias].localBytecodeHash

\* a push recorded a library under a name that is no contract alias, and
\* hasSameBytecode finds its hash
W_C10 ==
    /\ op.name = "push" /\ op.pc = "done"
    /\ "L" \notin DOMAIN networkFile.contracts
    /\ "L" \in DOMAIN networkFile.solidityLibs
    /\ hasSameBytecode("L", "L")
    /\ ~hasSameBytecode("A", "L")


\* the triples a requirement admits: from lo up to, not including, hi
RangeBounds(requirement) ==
    CASE requirement = "^1.2.0" -> [lo |-> <<1, 2, 0>>, hi |-> <<2, 0, 0>>]
      [] requirement = "^1.0.0" -> [lo |-> <<1, 0, 0>>, hi |-> <<2, 0, 0>>]
      [] requirement = "^2.0.0" -> [lo |-> <<2, 0, 0>>, hi |-> <<3, 0, 0>>]
      [] requirement = "^0.2.0" -> [lo |-> <<0, 2, 0>>, hi |-> <<0, 3, 0>>]
      [] requirement = "1.2.5" -> [lo |-> <<1, 2, 5>>, hi |-> <<1, 2, 6>>]
      [] OTHER -> [lo |-> <<0, 0, 0>>, hi |-> <<0, 0, 0>>]

\* the version, as a major.minor.patch triple, lies in the requirement's range
InRange(version, requirement) ==
    /\ Coerce(version) # << >>
    /\ ~VersionLess(Coerce(version), RangeBounds(requirement).lo)
    /\ VersionLess(Coerce(version), RangeBounds(requirement).hi)

\* the three ways a version satisfies a requirement
Satisfies(version, requirement) ==
    \/ requirement = None
    \/ version = requirement
    \/ InRange(version, requirement)

\* the Dependency of d could not be built: its task failed before any call
DependencyRefused(d) ==
    /\ <<"deploy", d>> \in DOMAIN tasks
    /\ tasks[<<"deploy", d>>] = "failed"
    /\ CallCount(<<"deploy", d>>) = 0

\* C11: satisfiesVersion(version, requirement) is true exactly when the
\* requirement is absent, the two are the same string, or the coerced
\* version lies in the requirement's range; so deployDependencies refuses a
\* dependency exactly when its installed version does none of the three.
\* (2.0.0, ^1.0.0) is false and (1.0.0, undefined) is true.
Thm_C11 ==
    /\ \A v \in InstalledVersions \cup DepVersions \cup PkgVersions,
          r \in VersionRequirements \cup Requirements :
          satisfiesVersion(v, r) <=> Satisfies(v, r)
    /\ ~satisfiesVersion("2.0.0", "^1.0.0")
    /\ satisfiesVersion("1.0.0", None)
    /\ op.name = "deployDependencies" =>
          \A d \in dependenciesNames :
              DependencyRefused(d) <=>
                  ~Satisfies(nodeModules[d].version, packageFile.dependencies[d])

\* deployDependencies accepted a dependency whose version satisfies the
\* requirement only once coerced: 1.2 against ^1.2.0
W_C11 ==
    /\ op.name = "deployDependencies"
    /\ \E d \in dependenciesNames :
          /\ nodeModules[d].version = "1.2"
          /\ packageFile.dependencies[d] = "^1.2.0"
          /\ ~DependencyRefused(d)
          /\ tasks[<<"deploy", d>>] = "done"



\* this step is a call of write()
WriteCall == storage'.calls = storage.calls + 1

\* the record in memory is deeply equal to what the record file holds
DeepEqual == storage.exists /\ networkFile = storage.data

\* C12 as stated: write() leaves the file alone when the record in memory is
\* deeply equal to the file and rewrites it exactly when they differ, so of
\* two calls in a row, with the same record in memory, the second one never
\* rewrites what the first one wrote
CE_C12 ==
    [][WriteCall =>
          /\ storage'.rewrites = storage.rewrites <=> DeepEqual
          /\ storage.wrote /\ storage.seen = networkFile =>
                 storage'.rewrites = storage.rewrites]_vars



\* handleDependenciesLink has started the linkDependency tasks of this push
LinkStarted ==
    /\ op.name = "push"
    /\ op.pc \notin {"fetch"}
    /\ ~(op.pc = "failed" /\ op.error.kind \in {"NamingCollision", "ValidationFailure", "Backend"})

\* when the push started the record did not satisfy the requirement of d and
\* the deployment record of d for this network holds no package address
UnpublishedAtStart(d) ==
    /\ ~SatisfiedAtStart(d)
    /\ nodeModules[d].network = "unpublished"

\* linkDependency of d has thrown the given error before any backend call
LinkFailedWith(d, error) ==
    /\ LinkStatus(d) = "failed"
    /\ dependencyInfoError(d) = error
    /\ CallCount(<<"setDependency", d>>) = 0
    /\ DependencyEntry(networkFile, d) = DependencyEntry(startFile, d)

\* C13 as stated: a dependency that the record does not satisfy and that has
\* no package address on this network fails with the unpublished-dependency
\* error, without a setDependency call and with its entry unchanged
CE_C13 ==
    LinkStarted =>
        \A d \in dependenciesNames :
            UnpublishedAtStart(d) => LinkFailedWith(d, "UnpublishedDependency")

\* C13, amended: such a dependency fails without a setDependency call and
\* with its entry unchanged; the error is the unpublished-dependency error
\* when the installed version satisfies the requirement and the version
\* mismatch error of the Dependency constructor when it does not
Thm_C13 ==
    LinkStarted =>
        \A d \in dependenciesNames :
            UnpublishedAtStart(d) =>
                IF Satisfies(nodeModules[d].version, packageFile.dependencies[d])
                THEN LinkFailedWith(d, "UnpublishedDependency")
                ELSE LinkFailedWith(d, "VersionMismatch")

\* handleDependenciesLink rejected with the unpublished-dependency error of a
\* dependency the record does not hold
W_C13 ==
    /\ LinkStarted
    /\ op.pc = "failed"
    /\ <<"link", "dep">> \in op.error.items
    /\ UnpublishedAtStart("dep")
    /\ LinkFailedWith("dep", "UnpublishedDependency")



\* the positions of the record's proxies entries: full name and index
ProxyPositions(file) ==
    UNION {{<<f, i>> : i \in 1 .. Len(file.proxies[f])} : f \in DOMAIN file.proxies}

\* the position of the proxy that updateProxy was called for, when the record
\* held it
UpdatedPositions ==
    {x \in ProxyPositions(startFile) :
        /\ x[1] = <<op.args.package, op.args.contract>>
        /\ startFile.proxies[x[1]][x[2]].address = op.args.address}

\* C14: updateProxy of a full name and address the record does not hold
\* fails with a not-found error and leaves the record as it was; of a pair
\* it holds, it replaces that entry by fn(entry), here the entry with the new
\* admin, and leaves every other entry and the rest of the record as they were
Thm_C14 ==
    op.name = "updateProxy" =>
        IF UpdatedPositions = {}
        THEN /\ op.pc = "failed"
             /\ op.error.kind = "NotFound"
             /\ networkFile = startFile
        ELSE /\ op.pc = "done"
             /\ [networkFile EXCEPT !.proxies = startFile.proxies] = startFile
             /\ ProxyPositions(networkFile) = ProxyPositions(startFile)
             /\ \A x \in ProxyPositions(startFile) :
                   networkFile.proxies[x[1]][x[2]] =
                       IF x \in UpdatedPositions
                       THEN [startFile.proxies[x[1]][x[2]] EXCEPT !.admin = op.args.admin]
                       ELSE startFile.proxies[x[1]][x[2]]

\* updateProxy replaced the second of two entries of a bucket
W_C14 ==
    /\ op.name = "updateProxy" /\ op.pc = "done"
    /\ \E f \in DOMAIN startFile.proxies :
          /\ Len(startFile.proxies[f]) = 2
          /\ UpdatedPositions = {<<f, 2>>}
          /\ networkFile.proxies[f][2].admin = "0xBE"
          /\ networkFile.proxies[f][1] = startFile.proxies[f][1]

\* the proxies of the record, each with the package and contract of its
\* bucket and Upgradeable for a kind it does not record
FlattenedProxies ==
    {[package |-> x[1][1], contract |-> x[1][2],
      address |-> startFile.proxies[x[1]][x[2]].address,
      version |-> startFile.proxies[x[1]][x[2]].version,
      implementation |-> startFile.proxies[x[1]][x[2]].implementation,
      admin |-> startFile.proxies[x[1]][x[2]].admin,
      kind |-> IF startFile.proxies[x[1]][x[2]].kind \in Kinds
               THEN startFile.proxies[x[1]][x[2]].kind ELSE "Upgradeable"] :
        x \in ProxyPositions(startFile)}

\* C15: getProxies(filter) returns the proxies of all buckets that agree
\* with the filter on each of package, contract, address and kind that the
\* filter holds, a proxy without a recorded kind being upgradeable, and
\* leaves the record as it was
Thm_C15 ==
    op.name = "getProxies" =>
        /\ op.selected =
              {proxy \in FlattenedProxies :
                  \A field \in {"package", "contract", "address", "kind"} :
                      op.args[field] # None => proxy[field] = op.args[field]}
        /\ networkFile = startFile

\* getProxies for the upgradeable proxies of a contract returned one recorded
\* without a kind and left out a minimal one
W_C15 ==
    /\ op.name = "getProxies"
    /\ op.args.kind = "Upgradeable" /\ op.args.contract = "A" /\ op.args.package = None
    /\ Cardinality(FlattenedProxies) = 2
    /\ \E f \in DOMAIN startFile.proxies :
          /\ Len(startFile.proxies[f]) = 2
          /\ startFile.proxies[f][1].kind = "Minimal"
          /\ startFile.proxies[f][2].kind = None
          /\ {proxy.address : proxy \in op.selected} = {startFile.proxies[f][2].address}



\* the operation is the creation of a minimal proxy with a salt
MinimalWithSalt(o) == o.name = "createProxy" /\ o.args.kind = "Minimal" /\ o.args.salt

\* such a creation never gets to the backend call and, unless something
\* before createProxyInstance failed, ends with the error of the minimal
\* proxy; the record has the proxies it had
MinimalWithSaltFails ==
    MinimalWithSalt(op) =>
        /\ op.pc \in {"fetch", "failed"}
        /\ \A c \in DOMAIN calls : c[1] = "createProxy" => calls[c] = 0
        /\ networkFile.proxies = startFile.proxies
        /\ op.pc = "failed" =>
              /\ op.error.kind \in {"MinimalWithSalt", "NotFound", "AddressInUse", "Backend"}
              /\ op.error.kind = "NotFound" => op.args.contract \notin contractAliases

\* no step of such a creation changes the proxies of the backend
MinimalWithSaltCreatesNone == MinimalWithSalt(op') => backend'.proxies = backend.proxies

\* C16: creating a minimal proxy with a salt fails with an error that says
\* so, creates no proxy on the backend and adds no proxy to the record
Thm_C16 == []MinimalWithSaltFails /\ [][MinimalWithSaltCreatesNone]_vars

\* createProxy of a known contract, Minimal with a salt, has thrown the error
\* of createProxyInstance
W_C16 ==
    /\ MinimalWithSalt(op)
    /\ op.args.contract \in contractAliases
    /\ op.pc = "failed"
    /\ op.error.kind = "MinimalWithSalt"



\* the implementation the backend resolves for the contract of the proxy at
\* an address
ResolvedImplementation(address) == getImplementation(ProxyAt(startFile, address).contract)

\* the entry of a proxy once upgradeProxy has refreshed it
RefreshedEntry(address) ==
    [ProxyAt(startFile, address) EXCEPT !.implementation = ResolvedImplementation(address),
                                        !.version = networkFile.version]

\* what holds of every selected proxy while upgradeProxies runs and after:
\* at most one upgradeProxy call; without a call, once past the comparison,
\* the proxy has the resolved implementation; the entry is the one the
\* operation found until the task is through, and the refreshed one after
UpgradeRecordsAfterCall ==
    op.name = "upgradeProxies" =>
        /\ op.pc = "fetch" => networkFile.proxies = startFile.proxies
        /\ \A address \in op.selected :
              <<"upgrade", address>> \in DOMAIN tasks =>
                  LET status == tasks[<<"upgrade", address>>]
                      made == CallCount(<<"upgradeProxy", address>>)
                  IN  /\ made <= 1
                      /\ (made = 0 /\ status \in {"called", "done"}) =>
                            backend.proxies[address].implementation
                                = ResolvedImplementation(address)
                      /\ status = "inflight" => made = 1
                      /\ status \in {"inflight", "called", "failed"} =>
                            ProxyAt(networkFile, address) = ProxyAt(startFile, address)
                      /\ status = "done" =>
                            ProxyAt(networkFile, address) = RefreshedEntry(address)

\* the step that starts the upgradeProxy tasks calls upgradeProxy for exactly
\* the selected proxies of a known contract whose implementation is not the
\* resolved one
UpgradeCallsIffDifferent ==
    (op.name = "upgradeProxies" /\ op.pc = "fetch" /\ op'.pc = "upgrade") =>
        \A address \in op.selected :
            ProxyAt(startFile, address).contract \in contractAliases =>
                ((<<"upgradeProxy", address>> \in DOMAIN calls'
                     /\ calls'[<<"upgradeProxy", address>>] = 1)
                 <=> backend.proxies[address].implementation
                        # ResolvedImplementation(address))

\* C17: upgradeProxy makes no backend call for a proxy whose implementation
\* is the one the backend resolves for its contract and only refreshes its
\* entry; otherwise it calls upgradeProxy once, and the entry gets the
\* resolved implementation and the package version only after the call
\* succeeded and stays as it was when the call fails
Thm_C17 == []UpgradeRecordsAfterCall /\ [][UpgradeCallsIffDifferent]_vars

\* upgradeProxies returned after one upgradeProxy call that changed the
\* implementation of the entry to the one registered by push
W_C17 ==
    /\ op.name = "upgradeProxies" /\ op.pc = "done"
    /\ \E address \in op.selected :
          /\ <<"upgrade", address>> \in DOMAIN tasks
          /\ tasks[<<"upgrade", address>>] = "done"
          /\ CallCount(<<"upgradeProxy", address>>) = 1
          /\ ProxyAt(networkFile, address).implementation
                # ProxyAt(startFile, address).implementation
          /\ ProxyAt(networkFile, address).implementation # NoImplementation
          /\ ProxyAt(networkFile, address).implementation
                = backend.proxies[address].implementation



\* what holds of every selected proxy while setProxiesAdmin runs and after:
\* until its changeProxyAdmin call has succeeded and its task gone on, and
\* for good when the call failed, the entry is the one the operation found;
\* the entry with the new admin comes with a backend that has that admin
AdminRecordedAfterCall ==
    op.name = "setProxiesAdmin" =>
        /\ op.pc = "fetch" => networkFile.proxies = startFile.proxies
        /\ \A address \in op.selected :
              <<"admin", address>> \in DOMAIN tasks =>
                  LET status == tasks[<<"admin", address>>]
                  IN  /\ CallCount(<<"changeProxyAdmin", address>>) = 1
                      /\ status \in {"inflight", "called", "failed"} =>
                            ProxyAt(networkFile, address) = ProxyAt(startFile, address)
                      /\ status \in {"called", "done"} =>
                            backend.proxies[address].admin = op.args.admin
                      /\ status = "done" =>
                            ProxyAt(networkFile, address) =
                                [ProxyAt(startFile, address) EXCEPT !.admin = op.args.admin]

\* a step that changes the recorded admin of a proxy is the continuation of
\* its task after a changeProxyAdmin call that succeeded
AdminChangesOnlyAfterCall ==
    op.name = "setProxiesAdmin" =>
        \A proxy \in allProxies(networkFile) :
            proxy \notin allProxies(networkFile') =>
                /\ <<"admin", proxy.address>> \in DOMAIN tasks
                /\ tasks[<<"admin", proxy.address>>] = "called"
                /\ tasks'[<<"admin", proxy.address>>] = "done"
                /\ backend.proxies[proxy.address].admin = op.args.admin

\* C18: the recorded admin of an owned proxy becomes the new admin only
\* after the changeProxyAdmin call for that proxy has succeeded, and a
\* proxy whose call fails keeps the admin that was recorded
Thm_C18 == []AdminRecordedAfterCall /\ [][AdminChangesOnlyAfterCall]_vars

\* of two proxies of a setProxiesAdmin, one has the new admin recorded and
\* the other, whose call failed, the admin it had
W_C18 ==
    /\ op.name = "setProxiesAdmin"
    /\ \E a \in op.selected, b \in op.selected :
          /\ {<<"admin", a>>, <<"admin", b>>} \subseteq DOMAIN tasks
          /\ tasks[<<"admin", a>>] = "failed"
          /\ ProxyAt(networkFile, a).admin = ProxyAt(startFile, a).admin
          /\ tasks[<<"admin", b>>] = "done"
          /\ ProxyAt(networkFile, b).admin = op.args.admin
          /\ ProxyAt(startFile, b).admin # op.args.admin


\* ------------------------------------------------------------------ C19
\* the proxies that the operation in progress found owned by the legacy owner
\* when it started
LegacyOwnedAtStart ==
    LET published == packageFile.isPublished \/ startFile.app # None
        owner == IF published THEN startFile.app ELSE TxFrom
        expected == toChecksumAddress(IF owner # None THEN owner ELSE startFile.proxyAdmin)
    IN  {proxy.address :
            proxy \in {x \in allProxies(startFile) :
                          /\ x.kind = "Upgradeable"
                          /\ \/ x.admin = None
                             \/ expected = None
                             \/ toChecksumAddress(x.admin) = expected}}

\* the schema version moves only from the legacy to the current one, and only
\* when every proxy that is legacy-owned in the record the operation started
\* from is administered by the registered proxy admin
AdvancedAfterMigration ==
    networkFile'.zosversion # networkFile.zosversion =>
        /\ networkFile.zosversion = LegacyZosversion
        /\ networkFile'.zosversion = ZOS_VERSION
        /\ LegacyOwnedAtStart' # {} => networkFile.proxyAdmin # None
        /\ \A a \in LegacyOwnedAtStart' : backend.proxies[a].admin = networkFile.proxyAdmin

\* an operation whose migration failed has the schema version it started with
FailedMigrationKeepsVersion ==
    (\/ \E t \in TasksOf({"migrate"}) : tasks[t] = "failed"
     \/ op.pc = "failed" /\ op.error.items = {<<"proxyAdmin", None>>})
        => /\ networkFile.zosversion = startFile.zosversion
           /\ networkFile.zosversion = LegacyZosversion

\* C19: when the record's schema version is migratable and proxies owned by
\* the legacy owner exist, the schema version is advanced to the current
\* version only after every such proxy has been migrated to the proxy admin;
\* if any proxy migration fails, the schema version keeps its old value
Thm_C19 == [][AdvancedAfterMigration]_vars /\ []FailedMigrationKeepsVersion

\* an operation transferred two legacy-owned proxies and advanced the version
W_C19 ==
    /\ startFile.zosversion = LegacyZosversion
    /\ networkFile.zosversion = ZOS_VERSION
    /\ Cardinality(LegacyOwnedAtStart) = 2
    /\ \A a \in LegacyOwnedAtStart :
          /\ <<"migrate", a>> \in DOMAIN tasks
          /\ CallCount(<<"changeProxyAdmin", a>>) > 0
          /\ backend.proxies[a].admin = networkFile.proxyAdmin

\* ------------------------------------------------------------------ C20
\* the step in which a push starts
PushStarts == counters'.ops # counters.ops /\ op'.name = "push"

\* the manifest version differs from the recorded one on a published project
NewVersionAtStep ==
    /\ packageFile.version # networkFile.version
    /\ packageFile.isPublished \/ networkFile.app # None

\* the record with frozen cleared and no contract entry, all else as it was
Cleared == [networkFile EXCEPT !.frozen = FALSE, !.contracts = Empty]

\* C20 as stated: every push that finds a new version on a published project
\* unfreezes the record and clears its contracts
CE_C20 ==
    [][PushStarts =>
          /\ networkFile'.proxies = networkFile.proxies
          /\ networkFile' = IF NewVersionAtStep THEN Cleared ELSE networkFile]_vars

\* after its start a push keeps frozen as it is and removes a contract entry
\* only for an alias the manifest no longer has
ClearsNothingLater ==
    /\ networkFile'.frozen = networkFile.frozen
    /\ DOMAIN networkFile.contracts \ DOMAIN networkFile'.contracts
          \subseteq Aliases \ DOMAIN packageFile.contracts

\* C20, amended: a push that is not refused for a naming collision or a
\* validation failure, when the manifest version differs from the record
\* version and the project is published, sets frozen to false and clears
\* every contract entry as it starts; a refused push, and a push with equal
\* versions or of an unpublished project, leaves the record as it is when it
\* starts; no step of a push changes a proxy entry, and after its start a push
\* never changes frozen and removes only entries of aliases gone from the manifest
Thm_C20 ==
    [][op'.name = "push" =>
          /\ networkFile'.proxies = networkFile.proxies
          /\ IF PushStarts
             THEN networkFile' = IF NewVersionAtStep /\ op'.pc # "failed"
                                 THEN Cleared ELSE networkFile
             ELSE ClearsNothingLater]_vars

\* a push of a new version started on a frozen record: the record is
\* unfrozen, has no contract entry and still has its proxy
W_C20 ==
    /\ op.name = "push" /\ op.pc = "fetch"
    /\ packageFile.version # startFile.version
    /\ startFile.frozen /\ startFile.contracts # Empty
    /\ ~networkFile.frozen /\ networkFile.contracts = Empty
    /\ networkFile.proxies = startFile.proxies
    /\ allProxies(networkFile) # {}

\* ------------------------------------------------------------------ C21
\* the libraries that the bytecode of some manifest contract references
ReferencedLibraries ==
    {l \in LibNames : \E a \in DOMAIN packageFile.contracts :
                          l \in getSolidityLibNames(packageFile.contracts[a])}

\* the library has no entry in solidityLibs, or one with another hash
LibraryOutdated(l) ==
    \/ l \notin DOMAIN networkFile.solidityLibs
    \/ CurrentHash(l) # networkFile.solidityLibs[l].localBytecodeHash

\* C21 as stated: the library delta of a push without reupload holds exactly
\* the referenced libraries that have no entry in solidityLibs or whose
\* current hash differs from the recorded one
CE_C21 ==
    [][PushStarts /\ ~op'.reupload /\ op'.error.kind # "NamingCollision" =>
          op'.changedLibraries = {l \in ReferencedLibraries : LibraryOutdated(l)}]_vars

\* ------------------------------------------------------------------ C22
\* the names for which this step calls the backend's unsetImplementation
UnsetCalled ==
    {n \in Names :
        /\ <<"unsetImplementation", n>> \in DOMAIN calls'
        /\ calls'[<<"unsetImplementation", n>>] > CallCount(<<"unsetImplementation", n>>)}

\* the recorded contract aliases that the manifest does not have
StaleAliases == DOMAIN networkFile.contracts \ DOMAIN packageFile.contracts

\* the removal phase of push calls unsetImplementation for exactly the stale
\* aliases, and a contracts entry is deleted only after the call for it succeeded
RemovesStaleAliases ==
    /\ op.name = "push" /\ op.pc = "libraries" /\ op'.pc = "contracts"
          => {t[2] : t \in {x \in DOMAIN tasks' : x[1] = "unsetContract"}} = StaleAliases
    /\ op'.name = "push" /\ counters'.ops = counters.ops =>
          \A a \in DOMAIN networkFile.contracts \ DOMAIN networkFile'.contracts :
              /\ a \in StaleAliases
              /\ tasks[<<"unsetContract", a>>] = "called"
              /\ a \notin DOMAIN backend.impls

\* a push that succeeded left no stale alias
SucceededWithoutStale == op.name = "push" /\ op.pc = "done" => StaleAliases = {}

\* C22 as stated: push calls unsetImplementation and deletes the entry for
\* exactly the stale aliases, leaves none after it succeeded, and never
\* unsets an alias of the manifest
CE_C22 ==
    /\ [][RemovesStaleAliases]_vars
    /\ []SucceededWithoutStale
    /\ [][op'.name = "push" => UnsetCalled \cap DOMAIN packageFile.contracts = {}]_vars

\* ------------------------------------------------------------------ C23
\* after a push that succeeded every recorded library is referenced
RecordedLibrariesReferenced ==
    op.name = "push" /\ op.pc = "done" =>
        DOMAIN networkFile.solidityLibs \subseteq ReferencedLibraries

\* a step of a push deletes a library entry only for a library that no
\* manifest contract references and that the backend has just unset
LibraryDeletedAfterUnset ==
    op'.name = "push" /\ counters'.ops = counters.ops =>
        \A l \in DOMAIN networkFile.solidityLibs \ DOMAIN networkFile'.solidityLibs :
            /\ l \notin ReferencedLibraries
            /\ <<"unsetLib", l>> \in DOMAIN tasks
            /\ tasks[<<"unsetLib", l>>] = "called"
            /\ CallCount(<<"unsetImplementation", l>>) > 0
            /\ l \notin DOMAIN backend.impls

\* C23: after a successful push every library recorded in solidityLibs is
\* referenced by the bytecode of some manifest contract; each recorded library
\* that is no longer referenced was unset on the backend and then deleted
Thm_C23 == []RecordedLibrariesReferenced /\ [][LibraryDeletedAfterUnset]_vars

\* a push succeeded that found the library L recorded and no longer
\* referenced: it unset L on the backend and deleted its entry
W_C23 ==
    /\ op.name = "push" /\ op.pc = "done"
    /\ "L" \in DOMAIN startFile.solidityLibs
    /\ "L" \notin ReferencedLibraries
    /\ "L" \notin DOMAIN networkFile.solidityLibs
    /\ <<"unsetLib", "L">> \in DOMAIN tasks /\ tasks[<<"unsetLib", "L">>] = "done"
    /\ CallCount(<<"unsetImplementation", "L">>) > 0

\* ------------------------------------------------------------------ C24
\* the tasks of the given kinds that this step launches
Started(kinds) == {t \in DOMAIN tasks' : t[1] \in kinds} \ DOMAIN tasks

\* every task of the given kinds ended without an error, and they are the
\* tasks of the given keys
AllDone(kinds, keys) ==
    /\ {t[2] : t \in TasksOf(kinds)} = keys
    /\ \A t \in TasksOf(kinds) : tasks[t] = "done"

\* the dependencies that handleDependenciesLink of this push had to handle
HandledDependencies ==
    DOMAIN packageFile.dependencies \cup DOMAIN startFile.dependencies

\* a step launches the tasks of a phase of push only when every task of the
\* phase before has ended without an error
PhaseOrdering ==
    /\ Started({"lib"}) # {} =>
          /\ op.pc = "dependencies"
          /\ AllDone({"link", "relink", "unlink"}, HandledDependencies)
    /\ Started({"contract", "unsetContract"}) # {} =>
          /\ op.pc = "libraries"
          /\ AllDone({"lib"}, op.changedLibraries)
          /\ op.changedLibraries \subseteq DOMAIN networkFile.solidityLibs
    /\ Started({"unsetLib"}) # {} =>
          /\ op.pc = "contracts"
          /\ AllDone({"contract"}, op.contracts)
          /\ \A t \in TasksOf({"unsetContract"}) : tasks[t] = "done"
          /\ StaleAliases = {}

\* C24: in push no contract deploy or removal starts before every library
\* deploy of the library delta settled successfully, no library deploy
\* starts before every dependency link and unlink settled successfully, and
\* the library cleanup starts only after the contract phase completed
Thm_C24 == [][PhaseOrdering]_vars

\* a push linked a dependency, then uploaded the library L, and is now
\* deploying the contract that references it
W_C24 ==
    /\ op.name = "push" /\ op.pc = "contracts"
    /\ op.changedLibraries = {"L"}
    /\ "L" \in DOMAIN networkFile.solidityLibs
    /\ <<"contract", "A">> \in DOMAIN tasks /\ tasks[<<"contract", "A">>] = "inflight"
    /\ CallCount(<<"setDependency", "dep">>) > 0
    /\ "dep" \in DOMAIN networkFile.dependencies

\* ------------------------------------------------------------------ C25
\* the contract uploads and removals that have not settled
UnsettledContractTasks ==
    {t \in TasksOf({"contract", "unsetContract"}) : tasks[t] \notin Settled}

\* C25 as stated: push neither returns nor raises while a contract upload or
\* a contract removal it launched has not settled
CE_C25 ==
    op.name = "push" /\ op.pc \in {"done", "failed"} => UnsettledContractTasks = {}

\* ------------------------------------------------------------------ C26
\* the key of the record that a task of push writes or deletes
KeyOf(t) ==
    CASE t[1] \in {"link", "relink", "unlink"} -> <<"dependencies", t[2]>>
      [] t[1] \in {"contract", "unsetContract"} -> <<"contracts", t[2]>>
      [] OTHER -> <<"solidityLibs", t[2]>>

\* the keys at which this step changes the record
WrittenKeys ==
    {<<"dependencies", d>> : d \in {x \in {"dep", "dep2"} :
        DependencyEntry(networkFile', x) # DependencyEntry(networkFile, x)}}
    \cup {<<"contracts", a>> : a \in {x \in Names :
        TaskEntry(networkFile', <<"contract", x>>) # TaskEntry(networkFile, <<"contract", x>>)}}
    \cup {<<"solidityLibs", l>> : l \in {x \in Names :
        TaskEntry(networkFile', <<"lib", x>>) # TaskEntry(networkFile, <<"lib", x>>)}}

\* no two tasks that run together have the same key
SiblingKeysDisjoint ==
    op.name = "push" => \A t, u \in DOMAIN tasks : t # u => KeyOf(t) # KeyOf(u)

\* a step of a task changes the record at the key of that task only
WritesOwnKey ==
    op.name = "push" /\ counters'.ops = counters.ops /\ op.pc \in {"dependencies", "contracts"}
        => \/ WrittenKeys = {}
           \/ \E t \in DOMAIN tasks : Continues(t) /\ WrittenKeys = {KeyOf(t)}

\* C26: among the tasks that push runs concurrently (contract deploys with
\* contract removals, dependency links with dependency unlinks) no two write
\* or delete the same record key, under every interleaving
Thm_C26 == []SiblingKeysDisjoint /\ [][WritesOwnKey]_vars

\* a link and an unlink of the same push wrote their entries, and an upload
\* and a removal of it are in flight together
W_C26 ==
    /\ op.name = "push" /\ op.pc = "contracts"
    /\ "dep" \in DOMAIN networkFile.dependencies
    /\ "dep2" \notin DOMAIN networkFile.dependencies
    /\ CallCount(<<"setDependency", "dep">>) > 0
    /\ <<"contract", "L">> \in DOMAIN tasks /\ tasks[<<"contract", "L">>] = "called"
    /\ <<"unsetContract", "A">> \in DOMAIN tasks /\ tasks[<<"unsetContract", "A">>] = "called"

\* ------------------------------------------------------------------ C27
\* the dependencies for which this step calls the backend's unsetDependency
UnsetDependencyCalled ==
    {d \in DOMAIN startFile.dependencies :
        /\ <<"unsetDependency", d>> \in DOMAIN calls'
        /\ calls'[<<"unsetDependency", d>>] > CallCount(<<"unsetDependency", d>>)}

\* unsetDependency is called only for a recorded dependency that the manifest
\* lacks and the backend has linked; one that is not linked goes on without a call
UnlinkCallsIfLinked ==
    /\ \A d \in UnsetDependencyCalled :
          /\ d \in DOMAIN networkFile.dependencies \ DOMAIN packageFile.dependencies
          /\ d \in DOMAIN backend.dependencies
    /\ \A t \in TasksOf({"unlink"}) :
          tasks[t] = "pending" /\ tasks'[t] # "pending" =>
              IF t[2] \in DOMAIN backend.dependencies
              THEN t[2] \in UnsetDependencyCalled /\ tasks'[t] = "inflight"
              ELSE UnsetDependencyCalled = {} /\ tasks'[t] = "called"

\* an unlink that returned deleted the entry and left the dependency unlinked;
\* it fails only when the backend call fails
UnlinkDeletes ==
    \A t \in TasksOf({"unlink"}) :
        /\ tasks[t] = "done" =>
              /\ t[2] \notin DOMAIN networkFile.dependencies
              /\ t[2] \notin DOMAIN backend.dependencies
        /\ tasks[t] = "failed" => CallCount(<<"unsetDependency", t[2]>>) > 0

\* after handleDependenciesLink succeeded every recorded dependency is in the manifest
LinkedOnlyManifest ==
    op.name = "push" /\ op.pc \in {"libraries", "contracts", "unsetLibs", "done"} =>
        DOMAIN networkFile.dependencies \subseteq DOMAIN packageFile.dependencies

\* C27: for a dependency recorded but absent from the manifest,
\* unlinkDependency calls unsetDependency only if the backend has it linked
\* and in both cases deletes the record entry; a dependency that is not
\* linked is not an error; after a successful handleDependenciesLink every
\* recorded dependency name is a manifest dependency name
Thm_C27 == [][UnlinkCallsIfLinked]_vars /\ []UnlinkDeletes /\ []LinkedOnlyManifest

\* the dependency dep2 was recorded but not linked on the backend: its entry
\* was deleted without a call while the dependency dep was linked
W_C27 ==
    /\ op.name = "push" /\ op.pc = "dependencies"
    /\ "dep" \in DOMAIN networkFile.dependencies
    /\ "dep2" \in DOMAIN startFile.dependencies
    /\ <<"unlink", "dep2">> \in DOMAIN tasks /\ tasks[<<"unlink", "dep2">>] = "done"
    /\ CallCount(<<"unsetDependency", "dep2">>) = 0
    /\ "dep2" \notin DOMAIN networkFile.dependencies

\* ------------------------------------------------------------------ C28
\* when the push started the record held a custom deployment of the manifest
\* dependency d whose version satisfies the requirement
MatchingCustomDeploy(d) ==
    /\ op.name = "push"
    /\ d \in DOMAIN packageFile.dependencies
    /\ d \in DOMAIN startFile.dependencies
    /\ startFile.dependencies[d].customDeploy
    /\ Satisfies(startFile.dependencies[d].version, packageFile.dependencies[d])

\* the backend is linked against what the record held for d
LinkedAsRecorded(d) ==
    /\ d \in DOMAIN backend.dependencies
    /\ backend.dependencies[d] = [package |-> startFile.dependencies[d].package,
                                  version |-> startFile.dependencies[d].version]

\* the push leaves the entry as it was, and its linkDependency makes one
\* setDependency call that links the recorded package and version
RelinksCustomDeploy ==
    \A d \in DepNames :
        MatchingCustomDeploy(d) =>
            /\ DependencyEntry(networkFile, d) = DependencyEntry(startFile, d)
            /\ op.pc = "dependencies" =>
                  /\ <<"relink", d>> \in DOMAIN tasks
                  /\ CallCount(<<"setDependency", d>>) = 1
                  /\ tasks[<<"relink", d>>] \in {"called", "done"} => LinkedAsRecorded(d)
            /\ PastLinking => LinkedAsRecorded(d)

\* C28: when the record holds a customDeploy entry for a manifest dependency
\* whose version satisfies the requirement, linkDependency links the backend
\* against the recorded package address and version and leaves the record
\* entry unchanged, however many times it is repeated
Thm_C28 == RelinksCustomDeploy

\* a push repeated right after a push relinked the custom deployment again
W_C28 ==
    /\ MatchingCustomDeploy("dep")
    /\ op.repeat
    /\ op.pc = "dependencies"
    /\ <<"relink", "dep">> \in DOMAIN tasks
    /\ tasks[<<"relink", "dep">>] = "done"
    /\ CallCount(<<"setDependency", "dep">>) = 1
    /\ LinkedAsRecorded("dep")
    /\ DependencyEntry(networkFile, "dep") = DependencyEntry(startFile, "dep")

\* the entry of d satisfies the requirement the manifest has for d
EntrySatisfiesRequirement(d) ==
    /\ d \in DOMAIN packageFile.dependencies
    /\ Satisfies(networkFile.dependencies[d].version, packageFile.dependencies[d])

\* C29: once handleDependenciesLink returned without an error, every
\* dependency name of the record is a dependency of the manifest and its
\* recorded version satisfies the manifest's requirement for that name,
\* unless the entry has customDeploy set
Thm_C29 ==
    (op.name = "push" /\ PastLinking) =>
        \A d \in DOMAIN networkFile.dependencies :
            \/ networkFile.dependencies[d].customDeploy
            \/ EntrySatisfiesRequirement(d)

\* handleDependenciesLink returned after linkDependency replaced an entry
\* whose version did not satisfy the requirement by the installed release
W_C29 ==
    /\ op.name = "push"
    /\ PastLinking
    /\ "dep" \in DOMAIN startFile.dependencies
    /\ "dep" \in DOMAIN packageFile.dependencies
    /\ ~Satisfies(startFile.dependencies["dep"].version, packageFile.dependencies["dep"])
    /\ CallCount(<<"setDependency", "dep">>) = 1
    /\ "dep" \in DOMAIN networkFile.dependencies
    /\ ~networkFile.dependencies["dep"].customDeploy
    /\ networkFile.dependencies["dep"].version = nodeModules["dep"].version
    /\ networkFile.dependencies["dep"].version # startFile.dependencies["dep"].version
    /\ EntrySatisfiesRequirement("dep")

\* the list of proxies the record holds under a full name
BucketOf(file, fullname) ==
    IF fullname \in DOMAIN file.proxies THEN file.proxies[fullname] ELSE << >>

\* the full name createProxy was called for
CreatedFullName == toContractFullName(op.args.package, op.args.contract)

\* createProxy appended one entry with that admin under its full name and
\* left every other list as it was: the entry has the new address, the
\* version of the record and the implementation the backend holds for it
AppendedWithAdmin(admin) ==
    /\ op.args.address \in DOMAIN backend.proxies
    /\ op.args.address \notin {p.address : p \in allProxies(startFile)}
    /\ BucketOf(networkFile, CreatedFullName) =
          Append(BucketOf(startFile, CreatedFullName),
                 [address |-> op.args.address,
                  version |-> networkFile.version,
                  implementation |-> backend.proxies[op.args.address].implementation,
                  admin |-> admin,
                  kind |-> op.args.kind])
    /\ \A f \in (DOMAIN networkFile.proxies \cup DOMAIN startFile.proxies) \ {CreatedFullName} :
          BucketOf(networkFile, f) = BucketOf(startFile, f)

\* C30: after a successful createProxy one entry is appended to the list of
\* its full name, with the new address, the package version, the on-chain
\* implementation and, as admin, the admin passed by the caller or else the
\* proxyAdmin address registered in the record; a failed createProxy
\* appends none
CE_C30 ==
    op.name = "createProxy" =>
        /\ op.pc = "done" =>
              AppendedWithAdmin(IF op.args.admin # None THEN op.args.admin
                                ELSE networkFile.proxyAdmin)
        /\ op.pc = "failed" => networkFile.proxies = startFile.proxies

\* createProxy was given a salt whose deployment address already has code
SaltCollision(o) == o.name = "createProxy" /\ o.args.salt /\ o.args.occupied

\* such a creation has failed with the error of the guard, without a
\* backend call that creates a proxy and with the proxies the record had
SaltCollisionFails ==
    SaltCollision(op) =>
        /\ op.pc = "failed"
        /\ op.error.kind = "AddressInUse"
        /\ \A c \in DOMAIN calls : c[1] = "createProxy" => calls[c] = 0
        /\ networkFile.proxies = startFile.proxies

\* no step of such a creation changes the proxies of the backend
SaltCollisionCreatesNone == SaltCollision(op') => backend'.proxies = backend.proxies

\* C31: when createProxy is given a salt and the deployment address of that
\* salt already has code, createProxy fails before any backend call that
\* creates a proxy and adds no proxy entry to the record
Thm_C31 == []SaltCollisionFails /\ [][SaltCollisionCreatesNone]_vars

\* createProxy of a known contract with a salt found code at the address,
\* in a record that already holds a proxy
W_C31 ==
    /\ SaltCollision(op)
    /\ op.args.contract \in contractAliases
    /\ op.args.kind = "Upgradeable"
    /\ op.pc = "failed"
    /\ op.error.kind = "AddressInUse"
    /\ allProxies(networkFile) # {}
    /\ CallCount(<<"createProxy", op.args.contract>>) = 0

\* the record is of a migratable schema version and holds no proxy of the
\* legacy owner
MigratableWithoutProxies ==
    isMigratableZosversion(networkFile.zosversion) /\ migrateProxies = {}

\* an operation that starts with _migrateZosversionIfNeeded is started
OperationStarts ==
    /\ counters'.ops = counters.ops + 1
    /\ op'.name \in {"createProxy", "upgradeProxies", "setProxiesAdmin"}

\* on such a record the start of the operation only advances the schema
\* version: no backend call, no proxy admin, nothing else of the record
AdvancesOnly ==
    (MigratableWithoutProxies /\ OperationStarts) =>
        /\ networkFile' = [networkFile EXCEPT !.zosversion = ZOS_VERSION]
        /\ backend' = backend
        /\ calls' = Empty
        /\ tasks' = Empty
        /\ op'.pc \notin {"migrate", "migrating"}

\* a current schema version stays current, and no operation on it migrates
CurrentStaysCurrent ==
    networkFile.zosversion = ZOS_VERSION =>
        /\ networkFile'.zosversion = ZOS_VERSION
        /\ op'.pc \notin {"migrate", "migrating"}
        /\ \A t \in DOMAIN tasks' \ DOMAIN tasks : t[1] # "migrate"

\* C32: when the record's schema version is migratable and no proxy is owned
\* by the legacy owner, migration makes no backend call, deploys no proxy
\* admin and only advances the schema version to the current version; once
\* the schema version is current, later operations trigger no migration
Thm_C32 == [][AdvancesOnly /\ CurrentStaysCurrent]_vars

\* setProxiesAdmin on a legacy record whose only proxy has another admin
\* returned: the version was advanced, nothing else happened
W_C32 ==
    /\ op.name = "setProxiesAdmin"
    /\ op.pc = "done"
    /\ isMigratableZosversion(startFile.zosversion)
    /\ allProxies(startFile) # {}
    /\ networkFile = [startFile EXCEPT !.zosversion = ZOS_VERSION]
    /\ backend.proxyAdmin = None
    /\ calls = Empty
    /\ counters.ops = 1

\* the upgradeable proxies the record held that match the package, contract
\* and address the operation was called with; a contract without a package
\* is a contract of the project
MatchingUpgradeable ==
    {proxy \in allProxies(startFile) :
        /\ proxy.kind = "Upgradeable"
        /\ IF op.args.package # None THEN proxy.package = op.args.package
           ELSE op.args.contract # None => proxy.package = PkgName
        /\ op.args.contract # None => proxy.contract = op.args.contract
        /\ op.args.address # None => proxy.address = op.args.address}

\* the recorded admin is absent or is the proxy admin of the record
AdminAbsentOrExpected(proxy) ==
    \/ proxy.admin = None
    \/ /\ startFile.proxyAdmin # None
       /\ toChecksumAddress(proxy.admin) = toChecksumAddress(startFile.proxyAdmin)

\* upgradeProxies or setProxiesAdmin has selected its proxies
Selecting == op.name \in {"upgradeProxies", "setProxiesAdmin"} /\ op.pc \notin {"migrate", "migrating"}

\* the backend calls of the operation are for selected proxies only
ActsOnSelected ==
    \A c \in TotalCalls :
        c[1] \in {"upgradeProxy", "changeProxyAdmin"} => c[2] \in op.selected

\* C33 as stated: the proxies setProxiesAdmin and upgradeProxies act on are
\* exactly the upgradeable proxies that match the package, contract and
\* address and whose recorded admin is absent or equal to the expected admin
CE_C33 ==
    Selecting =>
        /\ op.selected = {proxy.address : proxy \in {x \in MatchingUpgradeable :
                                                       AdminAbsentOrExpected(x)}}
        /\ ActsOnSelected

\* C33, amended: they are exactly the matching upgradeable proxies whose
\* recorded admin is absent or equal to the record's proxyAdmin address, and
\* every matching upgradeable proxy when the record has no proxyAdmin
\* address; minimal proxies are never selected
Thm_C33 ==
    Selecting =>
        /\ op.selected =
              {proxy.address : proxy \in {x \in MatchingUpgradeable :
                                             \/ AdminAbsentOrExpected(x)
                                             \/ startFile.proxyAdmin = None}}
        /\ \A proxy \in allProxies(startFile) :
              proxy.kind = "Minimal" => proxy.address \notin op.selected
        /\ ActsOnSelected

\* upgradeProxies returned after it selected one proxy and left out a minimal
\* proxy of the same contract
W_C33 ==
    /\ op.name = "upgradeProxies"
    /\ op.pc = "done"
    /\ op.args.address = None
    /\ op.selected # {}
    /\ \E proxy \in allProxies(startFile) :
          /\ proxy.kind = "Minimal"
          /\ op.args.contract # None => proxy.contract = op.args.contract
          /\ proxy.address \notin op.selected

\* the record holds the manifest's aliases and no other, each with the hash
\* of the artifact the manifest names for it
ContractsConverged ==
    /\ DOMAIN networkFile.contracts = contractAliases
    /\ \A alias \in contractAliases :
          /\ networkFile.contracts[alias].localBytecodeHash =
                CurrentHash(packageFile.contracts[alias])
          /\ ~hasContractChanged(alias)

\* C34: after a successful push with reupload false the aliases of
\* record.contracts are the manifest's contract aliases, and for every
\* manifest alias the recorded localBytecodeHash is the hash of the current
\* local artifact, so that hasContractChanged is false for each of them
Thm_C34 ==
    (op.name = "push" /\ op.pc = "done" /\ ~op.reupload) => ContractsConverged

\* a push returned after it uploaded again a contract that was recompiled
\* since the push before
W_C34 ==
    /\ op.name = "push" /\ op.pc = "done" /\ ~op.reupload
    /\ "A" \in contractAliases
    /\ "A" \in DOMAIN startFile.contracts
    /\ startFile.contracts["A"].localBytecodeHash # CurrentHash(packageFile.contracts["A"])
    /\ ContractsConverged

\* the operation has migrated the record it started from: the transfers of
\* _migrate are its latest batch and the schema version was advanced
MigrationSucceeded ==
    /\ isMigratableZosversion(startFile.zosversion)
    /\ networkFile.zosversion = ZOS_VERSION
    /\ TasksOf({"migrate"}) # {}

\* the proxies that migration transferred to the proxy admin
TransferredProxies ==
    {t[2] : t \in {x \in TasksOf({"migrate"}) :
                      /\ tasks[x] = "done"
                      /\ CallCount(<<"changeProxyAdmin", x[2]>>) > 0}}

\* the ownership filter of upgradeProxies and setProxiesAdmin takes the proxy
PassesOwnershipFilter(address) ==
    LET proxy == ProxyAt(networkFile, address)
    IN  \/ proxy.admin = None
        \/ networkFile.proxyAdmin = None
        \/ toChecksumAddress(proxy.admin) = toChecksumAddress(networkFile.proxyAdmin)

\* C35: after a successful schema migration that transferred proxies to the
\* proxy admin, every transferred proxy still passes the ownership filter
\* against the record's proxyAdmin address
CE_C35 ==
    MigrationSucceeded => \A a \in TransferredProxies : PassesOwnershipFilter(a)

\* the push was rejected with the frozen-version error
FrozenRejected == op.name = "push" /\ op.pc = "failed" /\ op.error.kind = "Frozen"

\* the backend calls that link or unlink a dependency
DependencyCalls ==
    {c \in TotalCalls : c[1] \in {"setDependency", "unsetDependency"}}

\* C36 as stated: a push rejected with the frozen-version error has made no
\* setDependency or unsetDependency call and leaves the whole record,
\* dependencies included, unchanged
CE_C36 ==
    FrozenRejected =>
        /\ DependencyCalls = {}
        /\ networkFile = startFile

\* C36, amended: a push is rejected with the frozen-version error only after
\* fetchOrDeploy and handleDependenciesLink succeeded: it has made no
\* setImplementation or unsetImplementation call and the record is the one
\* it started from except for what fetchOrDeploy registers and for the
\* dependencies, which are linked as after any successful
\* handleDependenciesLink; the dependency calls it made are a setDependency
\* for manifest dependencies and an unsetDependency for recorded
\* dependencies the manifest no longer has
Thm_C36 ==
    FrozenRejected =>
        /\ \A c \in TotalCalls : c[1] \notin {"setImplementation", "unsetImplementation"}
        /\ [networkFile EXCEPT !.dependencies = startFile.dependencies,
                               !.version = startFile.version,
                               !.app = startFile.app,
                               !.package = startFile.package] = startFile
        /\ networkFile.frozen
        /\ DOMAIN networkFile.dependencies = dependenciesNames
        /\ \A d \in dependenciesNames :
              \/ networkFile.dependencies[d].customDeploy
              \/ EntrySatisfiesRequirement(d)
        /\ \A c \in DependencyCalls :
              IF c[1] = "setDependency" THEN c[2] \in dependenciesNames
              ELSE c[2] \in DOMAIN startFile.dependencies \ dependenciesNames

\* a push on a frozen record linked a dependency added to the manifest and
\* was then rejected
W_C36 ==
    /\ FrozenRejected
    /\ startFile.frozen
    /\ "dep" \notin DOMAIN startFile.dependencies
    /\ "dep" \in DOMAIN networkFile.dependencies
    /\ CallCount(<<"setDependency", "dep">>) = 1
    /\ "dep" \in DOMAIN backend.dependencies

\* the names that are keys of both record.contracts and record.solidityLibs
SharedNames(file) == DOMAIN file.contracts \cap DOMAIN file.solidityLibs

\* C37: after a successful push no name is a key of both record.contracts and
\* record.solidityLibs
Thm_C37 == (op.name = "push" /\ op.pc = "done") => SharedNames(networkFile) = {}

\* a push returned on a record that held L as a library and, from a push
\* that failed, also as a contract: L is now a contract only
W_C37 ==
    /\ op.name = "push" /\ op.pc = "done"
    /\ "L" \in SharedNames(startFile)
    /\ "L" \in DOMAIN networkFile.contracts
    /\ SharedNames(networkFile) = {}

\* the entry of the proxy has the implementation the backend resolves for its
\* contract and the version of its package: the version of the record for a
\* contract of the project, the linked version of the dependency otherwise
EntryAsResolved(address) ==
    LET proxy == ProxyAt(networkFile, address)
    IN  /\ proxy.implementation =
              (IF proxy.package = PkgName THEN getImplementation(proxy.contract)
               ELSE <<"impl", proxy.package, proxy.contract,
                      backend.dependencies[proxy.package].version>>)
        /\ proxy.version = (IF proxy.package = PkgName THEN networkFile.version
                            ELSE backend.dependencies[proxy.package].version)

\* C38: after a successful upgradeProxies the recorded implementation of
\* every proxy it returns is the implementation address the backend resolves
\* for that proxy's contract, and the recorded version is the current
\* package version, or the linked dependency version for a proxy of a
\* dependency's contract
Thm_C38 ==
    (op.name = "upgradeProxies" /\ op.pc = "done") =>
        \A address \in op.selected : EntryAsResolved(address)

\* upgradeProxies returned both proxies, upgraded to the contract pushed
\* again and to the release of the dependency linked since
W_C38 ==
    /\ op.name = "upgradeProxies" /\ op.pc = "done"
    /\ op.selected = {"p1", "p2"}
    /\ ProxyAt(startFile, "p1").package = "dep"
    /\ ProxyAt(startFile, "p1").version # ProxyAt(networkFile, "p1").version
    /\ ProxyAt(startFile, "p2").implementation # ProxyAt(networkFile, "p2").implementation
    /\ CallCount(<<"upgradeProxy", "p1">>) = 1
    /\ CallCount(<<"upgradeProxy", "p2">>) = 1
    /\ EntryAsResolved("p1")
    /\ EntryAsResolved("p2")

\* C39: a freeze on a record without a package address fails with an error and leaves
\* frozen as it was; otherwise frozen turns true only in the step in which the backend's
\* freeze call, issued once by this freeze, has resolved; and frozen turns false again
\* only at the start of a push that requires a new package version.
FreezeUnpublishedFails ==
    (op.name = "freeze" /\ startFile.package = None)
        => /\ op.pc = "failed"
           /\ op.error.kind = "Unpublished"
           /\ networkFile.frozen = startFile.frozen

FrozenOnlyAfterFreezeCall ==
    (~networkFile.frozen /\ networkFile'.frozen)
        => /\ op.name = "freeze" /\ op.pc = "freezing"
           /\ startFile.package # None
           /\ CallCount(<<"freeze", PkgName>>) = 1
           /\ op'.name = "freeze" /\ op'.pc = "done"

FrozenUntilNewVersionPush ==
    (networkFile.frozen /\ ~networkFile'.frozen)
        => /\ counters'.ops = counters.ops + 1
           /\ op'.name = "push"
           /\ op'.newVersion
           /\ packageFile.version # networkFile.version

Thm_C39 ==
    /\ []FreezeUnpublishedFails
    /\ [][FrozenOnlyAfterFreezeCall /\ FrozenUntilNewVersionPush]_vars

\* a freeze of a published record has completed after its backend call, on a record that
\* was not frozen before
W_C39 ==
    /\ op.name = "freeze" /\ op.pc = "done"
    /\ startFile.package # None
    /\ ~startFile.frozen
    /\ networkFile.frozen
    /\ CallCount(<<"freeze", PkgName>>) = 1

\* C40: once the record has a proxyAdmin address (respectively a proxyFactory
\* address), no step of createProxy, of a migration, of deployProxyAdmin or of
\* deployProxyFactory changes it: the address is only ever set while it is absent.
RegisteredOnce ==
    /\ networkFile.proxyAdmin # None => networkFile'.proxyAdmin = networkFile.proxyAdmin
    /\ networkFile.proxyFactory # None => networkFile'.proxyFactory = networkFile.proxyFactory

Thm_C40 == [][RegisteredOnce]_vars

\* deployProxyAdmin has completed on a record that already had a proxyAdmin address,
\* and the record has a proxyFactory address too
W_C40 ==
    /\ op.name = "deployProxyAdmin" /\ op.pc = "done"
    /\ startFile.proxyAdmin # None
    /\ networkFile.proxyAdmin = startFile.proxyAdmin
    /\ networkFile.proxyFactory # None

====
